---- MODULE Spec2Model ----
(***************************************************************************)
(* Verification model of smoldot's runtime service                         *)
(* (bin/wasm-node/rust/src/runtime_service.rs): the background worker, the *)
(* guarded state, the runtime locks and the download tree they drive.      *)
(***************************************************************************)
EXTENDS Integers, Sequences, FiniteSets, TLC

(***************************************************************************)
(* Bounds of the model.                                                    *)
(***************************************************************************)
\* Blocks of the chain besides the genesis block 0.
NumBlocks == 3
\* Largest value of the clock.
MaxTime == 1
\* Downloads that fail, and times the stream of the sync service ends.
MaxFailures == 1
MaxResubs == 1
\* Subscriptions of each kind that are ever made.
NumSubs == 1
MaxSenders == 3
MaxBufLen == 2
MaxData == 3
MaxByte == 2
MaxStart == 1
MaxInstant == 3
MaxArgs == 3
\* Number of runtimes built in a row.
MaxBuilds == 2
\* The buffer_size passed to subscribe_all.
BufferSize == 1
\* Call proofs: the largest nibble of a key, the bytes of a key, and the keys
\* with a value.
MaxNibble == 1
MaxKeyLen == 2
MaxKeys == 2

(***************************************************************************)
(* Program constants.                                                      *)
(***************************************************************************)
\* "Don't download more than 2 runtimes at a time."
MaxParallel == 2

(***************************************************************************)
(* The chain.  Block 0 is the genesis block; block b > 0 has parent        *)
(* (b - 1) \div 2, so that forks exist at every height.  The storage of a  *)
(* block is a fact of the chain: CodeAt and HeapAt are the values of the   *)
(* keys :code and :heappages in the state of that block (0 = absent).      *)
(***************************************************************************)
Blocks0 == 0 .. NumBlocks
NoBlock == -1

Parent(b) == IF b = 0 THEN NoBlock ELSE (b - 1) \div 2

RECURSIVE Height(_)
Height(b) == IF b = 0 THEN 0 ELSE 1 + Height(Parent(b))

\* a is b or an ancestor of b.
RECURSIVE IsAncOrEq(_, _)
IsAncOrEq(a, b) ==
    IF a = b THEN TRUE
    ELSE IF b <= a \/ b <= 0 THEN FALSE
    ELSE IsAncOrEq(a, Parent(b))

CodeAt(b) == IF b = 0 THEN 1 ELSE b % 3
HeapAt(b) == IF b >= 4 /\ b % 4 = 0 THEN 1 ELSE 0

(***************************************************************************)
(* Runtime records (struct Runtime / SuccessfulRuntime).                   *)
(***************************************************************************)
\* A from_params that decodes the heap pages before it looks for the code.
from_params_heap_pages_first(code, heap_pages) ==
    IF heap_pages = 2 THEN "InvalidHeapPages"
    ELSE IF code = 0 THEN "CodeNotFound"
    ELSE IF code = 3 THEN "Build"
    ELSE IF code = 4 THEN "CoreVersion"
    ELSE "ok"

\* Outcome of SuccessfulRuntime::from_params: "ok" or the RuntimeError kind.
\* Code value 0 is None; heap pages value 2 does not decode; code value 3
\* does not compile; code value 4 has no Core_version.
from_params(code, heap_pages) ==
    IF code = 0 THEN "CodeNotFound"
    ELSE IF heap_pages = 2 THEN "InvalidHeapPages"
    ELSE IF code = 3 THEN "Build"
    ELSE IF code = 4 THEN "CoreVersion"
    ELSE "ok"

RtIds == 1 .. (NumBlocks + 1)
NoRt == 0

\* A free slot of the arena of runtime records.
FreeRt == [used |-> FALSE, code |-> 0, hp |-> 0, res |-> "ok", vm |-> FALSE,
           meta |-> 0, rc |-> 0]

\* Runtime { runtime, runtime_code, heap_pages }: `vm` is the slot
\* SuccessfulRuntime::virtual_machine, `meta` the metadata cache (0 for None,
\* otherwise the code of the runtime whose virtual machine produced it).
NewRuntime(code, heap_pages, withMeta) ==
    [used |-> TRUE, code |-> code, hp |-> heap_pages,
     res |-> from_params(code, heap_pages),
     vm |-> (from_params(code, heap_pages) = "ok"),
     meta |-> IF withMeta /\ from_params(code, heap_pages) = "ok"
              THEN code ELSE 0,
     rc |-> 1]

(***************************************************************************)
(* The download tree (smoldot::sync::download_tree::DownloadTree).  A tree *)
(* is a record:                                                            *)
(*   root    the finalized block at output (the first finalized block of   *)
(*           the tree as long as the tree has no output)                   *)
(*   inFin   the finalized block of the input                              *)
(*   inBest  the best block of the input                                   *)
(*   hasOut  has_output()                                                  *)
(*   outBest the best block at output                                      *)
(*   out     the non-finalized blocks the output has been advanced through *)
(*   st      the download state of every block ("absent" when the block is *)
(*           not in the tree)                                              *)
(*   rt      the runtime record a done block is bound to                   *)
(*   dl      the next-attempt timestamp of a block in failed cooldown      *)
(*   rts     the arena of runtime records                                  *)
(***************************************************************************)
TreeBlocks(t) == {b \in Blocks0 : t.st[b] # "absent"}

Downloading(t) == {b \in Blocks0 : t.st[b] = "downloading"}

EmptyTree(f) ==
    [some |-> TRUE,
     root |-> f, inFin |-> f, inBest |-> f, hasOut |-> FALSE, outBest |-> f,
     out |-> {},
     st |-> [b \in Blocks0 |-> IF b = f THEN "not_started" ELSE "absent"],
     rt |-> [b \in Blocks0 |-> NoRt],
     dl |-> [b \in Blocks0 |-> 0],
     rts |-> [r \in RtIds |-> FreeRt]]

from_finalized_block(f) == EmptyTree(f)

\* Guarded::tree is None: the tree was taken out of the Guarded, or the
\* Guarded does not exist.
NoTree == [EmptyTree(0) EXCEPT !.some = FALSE]

from_finalized_block_and_runtime(f, runtime) ==
    [EmptyTree(f) EXCEPT !.hasOut = TRUE,
                         !.st[f] = "done",
                         !.rt[f] = 1,
                         !.rts[1] = runtime]

\* input_insert_block: the parent must be in the tree, otherwise the block
\* is refused.
input_insert_block(t, b, isBest) ==
    IF b = 0 \/ t.st[b] # "absent" \/ Parent(b) \notin TreeBlocks(t) THEN t
    ELSE [t EXCEPT !.st[b] = "not_started",
                   !.inBest = IF isBest THEN b ELSE @]

input_finalize(t, h, newBest) ==
    IF h \notin TreeBlocks(t) THEN t
    ELSE [t EXCEPT !.inFin = h, !.inBest = newBest]

\* A block whose runtime the output needs: the input finalized block, its
\* ancestors above the finalized block at output, and its descendants.
Necessary(t, b) ==
    /\ b \in TreeBlocks(t)
    /\ IsAncOrEq(t.inFin, b) \/ (t.hasOut /\ IsAncOrEq(b, t.inFin))

\* Order of preference of the scheduler: the chain of the input finalized
\* block, then the chain of the input best block, then the other blocks;
\* within a class the lower block number, then the lower hash.
DlClass(t, b) ==
    IF IsAncOrEq(b, t.inFin) THEN 0
    ELSE IF IsAncOrEq(b, t.inBest) THEN 1
    ELSE 2

Before(t, a, b) ==
    \/ DlClass(t, a) < DlClass(t, b)
    \/ DlClass(t, a) = DlClass(t, b) /\ Height(a) < Height(b)
    \/ DlClass(t, a) = DlClass(t, b) /\ Height(a) = Height(b) /\ a <= b

\* A scheduler that retries a failed download whatever the clock says.
StartableNoCooldown(t, now) ==
    {b \in Blocks0 :
        /\ Necessary(t, b)
        /\ t.st[b] \in {"not_started", "failed"}}

Startable(t, now) ==
    {b \in Blocks0 :
        /\ Necessary(t, b)
        /\ \/ t.st[b] = "not_started"
           \/ t.st[b] = "failed" /\ t.dl[b] <= now}

Cooling(t, now) ==
    {b \in Blocks0 : Necessary(t, b) /\ t.st[b] = "failed" /\ t.dl[b] > now}

NoWhen == -1

\* next_necessary_download(now): [ready, block, when, t].  A Ready answer
\* marks the block as downloading; the download id is the block.
next_necessary_download(t, now) ==
    IF Cardinality(Downloading(t)) >= MaxParallel
    THEN [ready |-> FALSE, block |-> NoBlock, when |-> NoWhen, t |-> t]
    ELSE IF Startable(t, now) # {}
    THEN LET b == CHOOSE x \in Startable(t, now) :
                     \A y \in Startable(t, now) : Before(t, x, y)
         IN [ready |-> TRUE, block |-> b, when |-> NoWhen,
             t |-> [t EXCEPT !.st[b] = "downloading"]]
    ELSE IF Cooling(t, now) # {}
    THEN [ready |-> FALSE, block |-> NoBlock,
          when |-> (CHOOSE d \in {t.dl[b] : b \in Cooling(t, now)} :
                       \A b \in Cooling(t, now) : d <= t.dl[b]),
          t |-> t]
    ELSE [ready |-> FALSE, block |-> NoBlock, when |-> NoWhen, t |-> t]

\* A search that never finds a record.
FindRuntimeNever(t, code, heap_pages) == {}

\* Search of runtime_download_finished for a record with byte-equal code and
\* heap pages.
FindRuntime(t, code, heap_pages) ==
    {r \in RtIds : t.rts[r].used /\ t.rts[r].code = code
                   /\ t.rts[r].hp = heap_pages}

FreeRtId(t) == CHOOSE r \in RtIds :
                  /\ ~t.rts[r].used
                  /\ \A q \in RtIds : ~t.rts[q].used => r <= q

\* A binding to an existing record that does not count the block.
runtime_download_finished_existing_uncounted(t, id, r) ==
    IF id \notin Downloading(t) THEN t
    ELSE [t EXCEPT !.st[id] = "done", !.rt[id] = r]

\* A completion whose download is no longer one the tree waits for (the block
\* was pruned meanwhile) changes nothing.
runtime_download_finished_existing(t, id, r) ==
    IF id \notin Downloading(t) THEN t
    ELSE [t EXCEPT !.st[id] = "done", !.rt[id] = r, !.rts[r].rc = @ + 1]

runtime_download_finished_new(t, id, runtime) ==
    IF id \notin Downloading(t) THEN t
    ELSE [t EXCEPT !.st[id] = "done", !.rt[id] = FreeRtId(t),
                   !.rts[FreeRtId(t)] = runtime]

runtime_download_failure(t, id, now) ==
    IF id \notin Downloading(t) THEN t
    ELSE [t EXCEPT !.st[id] = "failed", !.dl[id] = now + 1]

\* Removal of the blocks that do not descend from the new root.
Pruned(t, newRoot) == {b \in TreeBlocks(t) : ~IsAncOrEq(newRoot, b)}

PruneTo(t, newRoot) ==
    LET gone == Pruned(t, newRoot) IN
    [t EXCEPT
        !.root = newRoot,
        !.out = @ \ (gone \cup {newRoot}),
        !.st = [b \in Blocks0 |-> IF b \in gone THEN "absent" ELSE @[b]],
        !.rt = [b \in Blocks0 |-> IF b \in gone THEN NoRt ELSE @[b]],
        !.dl = [b \in Blocks0 |-> IF b \in gone THEN 0 ELSE @[b]],
        !.rts = [r \in RtIds |->
                    [@[r] EXCEPT !.rc = @ - Cardinality(
                        {b \in gone : t.st[b] = "done" /\ t.rt[b] = r})]]]

\* The best block at output after a finalization: the deepest block of the
\* chain of the input best block that the output has been advanced through.
OnBestChain(t, fin) ==
    {fin} \cup {b \in t.out : IsAncOrEq(fin, b) /\ IsAncOrEq(b, t.inBest)}

OutputBestOf(t, fin) ==
    CHOOSE b \in OnBestChain(t, fin) :
        \A c \in OnBestChain(t, fin) : Height(c) <= Height(b)

\* An output that does not wait for the parent.
EmittableAnyOrder(t) ==
    {b \in TreeBlocks(t) :
        /\ b \notin t.out
        /\ b # t.root
        /\ IsAncOrEq(t.root, b)
        /\ t.st[b] = "done"}

\* Blocks the output can be advanced to: done, parent already at output.
Emittable(t) ==
    {b \in TreeBlocks(t) :
        /\ b \notin t.out
        /\ b # t.root
        /\ IsAncOrEq(t.root, b)
        /\ Parent(b) \in t.out \cup {t.root}
        /\ t.st[b] = "done"}

NoEvent == [type |-> "None", block |-> NoBlock, parent |-> NoBlock,
            best |-> "NotNewBest"]

\* try_advance_output: one step of the output cursor.  [t, ev].
try_advance_output(t) ==
    IF ~t.hasOut
    THEN IF t.st[t.inFin] = "done"
         THEN [t |-> [PruneTo(t, t.inFin) EXCEPT !.hasOut = TRUE,
                                                  !.outBest = t.inFin,
                                                  !.out = {}],
               ev |-> [NoEvent EXCEPT !.type = "FirstFinalized",
                                      !.block = t.inFin]]
         ELSE [t |-> t, ev |-> NoEvent]
    ELSE IF t.inFin # t.root /\ t.inFin \in t.out
    THEN [t |-> [PruneTo(t, t.inFin) EXCEPT
                    !.outBest = OutputBestOf(t, t.inFin)],
          ev |-> [NoEvent EXCEPT !.type = "Finalized", !.block = t.inFin,
                                 !.parent = OutputBestOf(t, t.inFin)]]
    ELSE IF Emittable(t) # {}
    THEN LET b == CHOOSE x \in Emittable(t) :
                     \A y \in Emittable(t) :
                        Height(x) < Height(y) \/ (Height(x) = Height(y) /\ x <= y)
             best == IF ~IsAncOrEq(b, t.inBest) THEN "NotNewBest"
                     ELSE IF t.rt[b] # t.rt[t.outBest]
                          THEN "NewBestAndRuntimeUpgrade"
                          ELSE "NewBest"
         IN [t |-> [t EXCEPT !.out = @ \cup {b},
                             !.outBest = IF best = "NotNewBest" THEN @ ELSE b],
             ev |-> [type |-> "Block", block |-> b, parent |-> Parent(b),
                     best |-> best]]
    ELSE [t |-> t, ev |-> NoEvent]

drain_unused_runtimes(t) ==
    [t EXCEPT !.rts = [r \in RtIds |->
                          IF @[r].used /\ @[r].rc = 0 THEN FreeRt ELSE @[r]]]

\* Queries of the tree.
has_output(t) == t.hasOut
finalized_block_hash(t) == t.root
best_block_hash(t) == t.outBest
best_block_runtime(t) == t.rts[t.rt[t.outBest]]
\* block_runtime(hash) is Some for the blocks of the output view.
HasBlockRuntime(t, h) == t.hasOut /\ (h = t.root \/ h \in t.out)
block_runtime(t, h) == t.rts[t.rt[h]]
non_finalized_blocks_ancestry_order(t) == t.out

(***************************************************************************)
(* State.                                                                  *)
(***************************************************************************)
VARIABLES
    \* The sync service: its finalized block, the non-finalized blocks it
    \* has announced, its best block, its near-head heuristic.
    sFin, sKnown, sBest, sNear,
    \* Ghost: for every block, what the near-head heuristic of the sync
    \* service said when the sync service showed the block to the worker.
    nearAt,
    \* The clock (ffi::Instant::now()); how many downloads have failed and
    \* how many times the stream of notifications has ended.
    now, nFail, nResub,
    \* Guarded of the original service: tree and best_near_head_of_chain.
    orig, oNear,
    \* Guarded of the temporary service the worker bootstraps on.
    temp, tNear,
    \* The mutex of the original service's Guarded: "free" or "caller".
    mutex,
    \* The worker: where it is, whether Background::runtime_service is the
    \* temporary service, the block notification it is processing,
    \* Background::runtime_downloads, wake_up_new_necessary_download.
    wpc, onTemp, wArg, downloads, wake,
    \* The subscription lists of the original service's Guarded (sequences of
    \* subscriber ids), the state of every subscriber's receiver ("new": not
    \* yet subscribed, "open", "dropped"), the last item sent to each lossy
    \* subscriber, and the queue of each all-blocks channel.
    subList, subSt, subLast, allQ,
    \* Ghost: what each all-blocks subscriber has been given, the snapshot
    \* subscribe_all returned and the notifications pushed on its channel.
    allSeen,
    \* A caller of the public API: where it is, the block of its RuntimeLock
    \* or RuntimeCallLock, the variant of the RuntimeLock ("oot" for OutOfTree;
    \* for InTree the function that made it: "best", "fin", "hash"),
    \* RuntimeCallLock::guarded being Some, call_proof being Ok, and (ghost)
    \* the record the virtual machine was extracted from and how the last
    \* RuntimeCallLock ended.
    cpc, cBlock, cKind, cGuarded, cProof, cRt, cLast,
    \* Whether the process has panicked, and where.
    panicked,
    \* Ghost: the events of the last advance_and_notify_subscribers call, and
    \* the kinds of subscription on which the last step sent an item.
    evlog, fired,
    \* A call proof seen as the storage it proves (the keys with a value) and
    \* how much of it the proof covers, the prefix handed to
    \* storage_prefix_keys_ordered, and what the function returned.
    kvTrie, kvProof, kvPrefix, kvRes,
    \* Three lists of senders as Guarded::notify_subscribers finds them, the
    \* state of every sender ("new": in no list yet, "open", "dropped": its
    \* receiver was dropped), and
    \* (ghost) the arguments of the notify_subscribers call of the last step.
    fanList, fanSt, fanFlags,
    \* A ReadWrite (incoming_buffer, outgoing_buffer, read_bytes,
    \* written_bytes), the two arrays its outgoing slices point into, a
    \* VecDeque of bytes as its two slices, and (ghost) the last call made on
    \* the ReadWrite.
    rw, rwBufs, rwData, rwOp,
    \* ReadWrite::wake_up_after, and (ghost) the value it started with and the
    \* instants passed to wake_up_after() since.
    rwWake, rwSeen,
    \* A JSON-RPC message as parse_call reads it, and what parse_json_call
    \* returned for it.
    jsCall, jsRes,
    \* The results of the SuccessfulRuntime::from_params calls made so far,
    \* each with its parameters.
    fpBuilt

syncVars == <<sFin, sKnown, sBest, sNear, nearAt, nFail, nResub>>
workerVars == <<wpc, onTemp, wArg, downloads, wake>>
subVars == <<subList, subSt, subLast, allQ, allSeen>>
callerVars == <<cpc, cBlock, cKind, cGuarded, cProof, cRt, cLast, panicked>>
vars == <<sFin, sKnown, sBest, sNear, nearAt, now, nFail, nResub, orig, oNear, temp, tNear, mutex,
          wpc, onTemp, wArg, downloads, wake, subList, subSt, subLast, allQ,
          allSeen,
          cpc, cBlock, cKind, cGuarded, cProof, cRt, cLast, panicked,
          evlog, fired, kvTrie, kvProof, kvPrefix, kvRes,
          fanList, fanSt, fanFlags, rw, rwBufs, rwData, rwOp,
          rwWake, rwSeen, jsCall, jsRes, fpBuilt>>
kvVars == <<kvTrie, kvProof, kvPrefix, kvRes>>
unitVars == <<fanList, fanSt, fanFlags, rw, rwBufs, rwData, rwOp,
              rwWake, rwSeen, jsCall, jsRes, fpBuilt>>
serviceVars == <<sFin, sKnown, sBest, sNear, nearAt, now, nFail, nResub, orig, oNear,
                 temp, tNear, mutex, wpc, onTemp, wArg, downloads, wake,
                 subList, subSt, subLast, allQ, allSeen, cpc, cBlock, cKind,
                 cGuarded,
                 cProof, cRt, cLast, panicked, evlog, fired>>

Lossy == {"best", "fin", "rtv"}
Kinds == Lossy \cup {"all"}
SubIds == 1 .. NumSubs

NoLast == [how |-> "none", guarded |-> FALSE]

\* A subscriber that has not called subscribe_all.
NoSeen == [fin |-> NoBlock, blocks |-> <<>>, sent |-> <<>>]

NoArg == [block |-> NoBlock, best |-> FALSE, near |-> FALSE]

\* RuntimeService::new: the genesis runtime with its metadata, a tree seeded
\* with the genesis block, and the worker spawned.  The sync service starts
\* far from the head of the chain.
ServiceInitFrom(tree, pc) ==
    /\ sFin = 0 /\ sKnown = {} /\ sBest = 0 /\ sNear = FALSE
    /\ nearAt = [b \in Blocks0 |-> sNear]
    /\ now = 0 /\ nFail = 0 /\ nResub = 0
    /\ orig = tree
    /\ oNear = sNear
    /\ temp = NoTree /\ tNear = FALSE
    /\ mutex = "free"
    /\ wpc = pc /\ onTemp = FALSE /\ wArg = NoArg
    /\ downloads = {} /\ wake = NoWhen
    /\ subList = [k \in Kinds |-> <<>>]
    /\ subSt = [k \in Kinds |-> [i \in SubIds |-> "new"]]
    /\ subLast = [k \in Lossy |-> [i \in SubIds |-> NoBlock]]
    /\ allQ = [i \in SubIds |-> <<>>]
    /\ allSeen = [i \in SubIds |-> NoSeen]
    /\ cpc = "idle" /\ cBlock = NoBlock /\ cKind = "none" /\ cGuarded = FALSE
    /\ cProof = TRUE /\ cRt = NoRt /\ cLast = NoLast
    /\ panicked = "no"
    /\ evlog = <<>> /\ fired = {}

ServiceInit ==
    ServiceInitFrom(from_finalized_block_and_runtime(
                        0, NewRuntime(CodeAt(0), HeapAt(0), TRUE)),
                    "subscribe")

NoRes == [ok |-> FALSE, keys |-> <<>>, called |-> FALSE, err |-> "none"]

\* A slice of bytes of one of the two arrays: the bytes lo + 1 .. hi of it.
NoSlice == [arr |-> 1, lo |-> 0, hi |-> 0]

NoOp == [name |-> "none", num |-> 0, panicked |-> FALSE, ret |-> <<>>]

Senders == 1 .. MaxSenders

NoFlags == [k \in Lossy |-> FALSE]

\* No subscription list under examination.
FanIdle ==
    /\ fanList = [k \in Lossy |-> <<>>]
    /\ fanSt = [i \in Senders |-> "new"]
    /\ fanFlags = NoFlags

\* No ReadWrite under examination.
RWIdle ==
    /\ rw = [incoming_buffer |-> [some |-> FALSE, buf |-> <<>>],
             outgoing_buffer |-> [some |-> FALSE, b0 |-> NoSlice,
                                  b1 |-> NoSlice],
             read_bytes |-> 0, written_bytes |-> 0]
    /\ rwBufs = <<<<>>, <<>>>>
    /\ rwData = <<<<>>, <<>>>>
    /\ rwOp = NoOp

\* Option<TNow>: None.
NoInstant == [some |-> FALSE, t |-> 0]

\* No wake-up asked for.
WakeIdle ==
    /\ rwWake = NoInstant
    /\ rwSeen = [init |-> NoInstant, passed |-> {}]

\* No JSON-RPC message under examination.
JsIdle ==
    /\ jsCall = [parses |-> FALSE]
    /\ jsRes = [variant |-> "none"]

\* No runtime built outside of the service.
BuildIdle == fpBuilt = <<>>

UnitIdle == FanIdle /\ RWIdle /\ WakeIdle /\ JsIdle /\ BuildIdle

Init ==
    /\ ServiceInit
    /\ kvTrie = {} /\ kvProof = "full" /\ kvPrefix = <<>> /\ kvRes = NoRes
    /\ UnitIdle

\* Every step is a step of a process that has not panicked; no step of the
\* service touches the call proof.
Live == panicked = "no" /\ UNCHANGED kvVars /\ UNCHANGED unitVars

\* The Guarded the worker manipulates.
WTree == IF onTemp THEN temp ELSE orig
WNear == IF onTemp THEN tNear ELSE oNear

\* The worker can lock the Guarded it manipulates: nobody else ever locks the
\* temporary one.
WCanLock == IF onTemp THEN TRUE ELSE mutex = "free"

\* A worker that writes to the original service whatever service it runs on.
SetOriginalAfter(t, near) ==
    /\ orig' = t /\ oNear' = near
    /\ UNCHANGED <<temp, tNear>>

SetWAfter(t, near) ==
    /\ temp' = IF onTemp THEN t ELSE temp
    /\ tNear' = IF onTemp THEN near ELSE tNear
    /\ orig' = IF onTemp THEN orig ELSE t
    /\ oNear' = IF onTemp THEN oNear ELSE near

(***************************************************************************)
(* advance_and_notify_subscribers.                                         *)
(***************************************************************************)
\* A worker that ignores the best block a finalization reports.
BestBlockUpdatedByBlock(ev) ==
    \/ ev.type = "FirstFinalized"
    \/ ev.type = "Block" /\ ev.best \in {"NewBest", "NewBestAndRuntimeUpgrade"}

\* What the worker derives from one output update (the match on `notif`).
BestBlockUpdated(ev) ==
    \/ ev.type \in {"FirstFinalized", "Finalized"}
    \/ ev.type = "Block" /\ ev.best \in {"NewBest", "NewBestAndRuntimeUpgrade"}

\* A worker that takes every new best block for a runtime change.
BestBlockRuntimeChangedAnyBest(ev) ==
    \/ ev.type \in {"FirstFinalized", "Finalized"}
    \/ ev.type = "Block" /\ ev.best \in {"NewBest", "NewBestAndRuntimeUpgrade"}

BestBlockRuntimeChanged(ev) ==
    \/ ev.type \in {"FirstFinalized", "Finalized"}
    \/ ev.type = "Block" /\ ev.best = "NewBestAndRuntimeUpgrade"

FinalizedBlockUpdated(ev) == ev.type \in {"FirstFinalized", "Finalized"}

\* The notification pushed on the all-blocks channels, if any.
AllBlocksNotif(ev) ==
    IF ev.type = "Finalized"
    THEN [type |-> "Finalized", block |-> ev.block, parent |-> NoBlock,
          best |-> ev.parent]
    ELSE [type |-> "Block", block |-> ev.block, parent |-> ev.parent,
          best |-> IF BestBlockUpdated(ev) THEN ev.block ELSE NoBlock]

\* The loop over try_advance_output: the tree in the end and the log of the
\* updates, each with what the tree looked like around it.
RECURSIVE AdvanceLoop(_, _)
AdvanceLoop(t, log) ==
    LET r == try_advance_output(t) IN
    IF r.ev.type = "None" THEN [t |-> t, log |-> log]
    ELSE AdvanceLoop(r.t,
            Append(log, [ev |-> r.ev,
                         fin |-> r.t.root,
                         before |-> t.out \cup {t.root},
                         state |-> t.st[r.ev.block],
                         rtPrev |-> t.rt[t.outBest],
                         rtNew |-> r.t.rt[r.t.outBest],
                         bestUpd |-> BestBlockUpdated(r.ev),
                         rtChanged |-> BestBlockRuntimeChanged(r.ev),
                         finUpd |-> FinalizedBlockUpdated(r.ev)]))

Flag(log, f(_)) == \E i \in 1 .. Len(log) : f(log[i])

(***************************************************************************)
(* Fan-out to the subscribers.                                             *)
(***************************************************************************)
\* Vec::pop in the place of Vec::swap_remove.
PopLast(list, i) == SubSeq(list, 1, Len(list) - 1)

\* Vec::swap_remove(index), with index counted from 1.
SwapRemove(list, i) ==
    IF i = Len(list) THEN SubSeq(list, 1, Len(list) - 1)
    ELSE [SubSeq(list, 1, Len(list) - 1) EXCEPT ![i] = list[Len(list)]]

\* "Elements are removed one by one and inserted back if the channel is
\* still open": for index in (0..len).rev() { swap_remove; send; push }.
\* ok is the set of subscribers whose send succeeds.
RECURSIVE FanOut(_, _, _)
FanOut(list, i, ok) ==
    IF i = 0 THEN list
    ELSE LET sub == list[i]
             rest == SwapRemove(list, i)
         IN FanOut(IF sub \in ok THEN Append(rest, sub) ELSE rest, i - 1, ok)

SeqRange(list) == {list[i] : i \in 1 .. Len(list)}

\* A lossy_channel send succeeds as long as the receiver is alive.
LossyOk(st, k) == {i \in SubIds : st[k][i] = "open"}

\* The capacity of mpsc::channel(buffer_size) with its single sender.
ChannelCapacity(buffer_size) == buffer_size + 1

\* mpsc try_send succeeds if the receiver is alive and the channel not full.
TrySendOk(st, q) ==
    {i \in SubIds : st["all"][i] = "open"
                    /\ Len(q[i]) < ChannelCapacity(BufferSize)}

\* The value sent on each lossy kind of subscription.
RuntimeVersionOf(rec) == IF rec.res = "ok" THEN rec.code ELSE 0 - 1

NotifValue(t, k) ==
    IF k = "best" THEN best_block_hash(t)
    ELSE IF k = "fin" THEN finalized_block_hash(t)
    ELSE RuntimeVersionOf(best_block_runtime(t))

\* Guarded::notify_subscribers on the lists `lists` of the original service:
\* the lists and last items afterwards.  flags[k] tells whether kind k is
\* notified.
notify_subscribers(lists, flags, ok) ==
    [k \in Lossy |-> IF flags[k] THEN FanOut(lists[k], Len(lists[k]), ok[k])
                     ELSE lists[k]]

NotifiedList(lists, t, flags, k) ==
    IF k \in Lossy
    THEN notify_subscribers(lists, flags,
                            [kk \in Lossy |-> LossyOk(subSt, kk)])[k]
    ELSE lists[k]

NotifiedLast(lists, t, flags) ==
    [k \in Lossy |-> [i \in SubIds |->
        IF flags[k] /\ i \in SeqRange(lists[k]) /\ i \in LossyOk(subSt, k)
        THEN NotifValue(t, k) ELSE subLast[k][i]]]

FiredKinds(lists, flags) ==
    {k \in Lossy : flags[k] /\ SeqRange(lists[k]) \cap LossyOk(subSt, k) # {}}

\* The pushes of the log's notifications on the all-blocks channels, in
\* order: [list, q, seen] afterwards.
RECURSIVE PushAll(_, _, _, _, _)
PushAll(log, n, list, q, seen) ==
    IF n > Len(log) THEN [list |-> list, q |-> q, seen |-> seen]
    ELSE IF log[n].ev.type = "FirstFinalized"
    THEN PushAll(log, n + 1, list, q, seen)
    ELSE LET ok == TrySendOk(subSt, q) IN
         PushAll(log, n + 1, FanOut(list, Len(list), ok),
                 [i \in SubIds |->
                    IF i \in SeqRange(list) /\ i \in ok
                    THEN Append(q[i], AllBlocksNotif(log[n].ev)) ELSE q[i]],
                 [i \in SubIds |->
                    IF i \in SeqRange(list) /\ i \in ok
                    THEN [seen[i] EXCEPT
                            !.sent = Append(@, AllBlocksNotif(log[n].ev))]
                    ELSE seen[i]])

\* The effect of advance_and_notify_subscribers on the Guarded the worker
\* manipulates, whose tree is t before the call.
AdvanceAndNotifyThen(t, near, drain) ==
    LET r == AdvanceLoop(t, <<>>)
        flags == [k \in Lossy |->
                    IF k = "best" THEN Flag(r.log, LAMBDA e : e.bestUpd)
                    ELSE IF k = "fin" THEN Flag(r.log, LAMBDA e : e.finUpd)
                    ELSE Flag(r.log, LAMBDA e : e.rtChanged)]
        pushed == PushAll(r.log, 1, subList["all"], allQ, allSeen)
    IN /\ evlog' = r.log
       /\ IF onTemp
          THEN /\ UNCHANGED subVars
               /\ fired' = {}
          ELSE /\ subList' = [k \in Kinds |->
                                IF k = "all" THEN pushed.list
                                ELSE NotifiedList(subList, r.t, flags, k)]
               /\ allQ' = pushed.q
               /\ allSeen' = pushed.seen
               /\ subLast' = NotifiedLast(subList, r.t, flags)
               /\ fired' = FiredKinds(subList, flags)
               /\ UNCHANGED subSt
       /\ SetWAfter(IF drain THEN drain_unused_runtimes(r.t) ELSE r.t, near)

AdvanceAndNotify(t, near) == AdvanceAndNotifyThen(t, near, FALSE)

(***************************************************************************)
(* The background worker (run_background and Background).                  *)
(***************************************************************************)
\* The tree of the temporary service: the finalized block of the
\* subscription, then every non-finalized block in ancestry order.
RECURSIVE InsertAll(_, _, _)
InsertAll(t, blocks, best) ==
    IF blocks = {} THEN t
    ELSE LET b == CHOOSE x \in blocks : \A y \in blocks : x <= y
         IN InsertAll(input_insert_block(t, b, b = best), blocks \ {b}, best)

\* A worker that never starts a download.
DownloadsFullAlways(dls) == TRUE

\* A limit that lets a third download start.
DownloadsFullOffByOne(dls) == Cardinality(dls) > MaxParallel

\* "Don't download more than 2 runtimes at a time."
DownloadsFull(dls) == Cardinality(dls) >= MaxParallel

\* A worker that never arms the wake-up timer.
WakeUpNever(when) == NoWhen

\* wake_up_new_necessary_download after NotReady { when }: Delay::new_at(when)
\* for Some(when), future::pending() for None.
WakeUpAt(when) == when

\* The loop of start_necessary_downloads: [t, dls, wake] afterwards.
RECURSIVE StartLoop(_, _, _)
StartLoop(t, dls, wk) ==
    IF DownloadsFull(dls) THEN [t |-> t, dls |-> dls, wake |-> wk]
    ELSE LET r == next_necessary_download(t, now) IN
         IF r.ready THEN StartLoop(r.t, dls \cup {r.block}, wk)
         ELSE [t |-> t, dls |-> dls, wake |-> WakeUpAt(r.when)]

\* The cached flag alone, without asking the sync service first.
CachedNearHeadOnly == oNear

\* RuntimeService::is_near_head_of_chain_heuristic of the original service.
is_near_head_of_chain_heuristic == IF ~sNear THEN FALSE ELSE oNear

\* A worker that keeps the downloads of the previous subscription.
KeptDownloads(dls) == dls

\* runtime_downloads of the Background built by each iteration of the outer
\* loop: stream::FuturesUnordered::new(); the futures of the previous
\* Background are dropped with it.
FreshDownloads(dls) == {}

\* Outer loop: subscribe to the sync service and create the temporary
\* service.
W_Subscribe ==
    /\ Live
    /\ UNCHANGED callerVars
    /\ wpc = "subscribe"
    /\ IF sNear THEN mutex = "free" ELSE TRUE
    /\ temp' = InsertAll(from_finalized_block(sFin), sKnown, sBest)
    /\ tNear' = is_near_head_of_chain_heuristic
    /\ onTemp' = TRUE
    /\ downloads' = FreshDownloads(downloads)
    /\ wake' = NoWhen
    /\ wpc' = "start_dl"
    /\ nearAt' = [b \in Blocks0 |-> sNear]
    /\ evlog' = <<>> /\ fired' = {}
    /\ UNCHANGED <<sFin, sKnown, sBest, sNear, nFail, nResub, now, orig, oNear,
                   mutex, wArg, subVars>>

\* start_necessary_downloads, called after every event.
W_StartDownloads ==
    /\ Live
    /\ UNCHANGED callerVars
    /\ wpc = "start_dl"
    /\ WCanLock
    /\ LET r == StartLoop(WTree, downloads, wake) IN
        /\ SetWAfter(r.t, WNear)
        /\ downloads' = r.dls
        /\ wake' = r.wake
    /\ wpc' = "select"
    /\ evlog' = <<>> /\ fired' = {}
    /\ UNCHANGED <<syncVars, now, mutex, onTemp, wArg, subVars>>

\* A hand-over that does not wait for the output of the temporary service.
HandOverDueAlways == onTemp

\* Top of the inner loop: the temporary service has output.
HandOverDue == onTemp /\ has_output(temp)

\* A hand-over that keeps the all-blocks subscriptions of the original
\* service.
HandOverSubscriptionsKept(lists) == lists

\* original_guarded.all_blocks_subscriptions.clear().
HandOverSubscriptions(lists) == [lists EXCEPT !["all"] = <<>>]

\* A hand-over that takes the tree out of the original service.
TakenFromOriginal(t) == NoTree

\* original_guarded.tree = Some(temporary_guarded.tree.take().unwrap()).
TakenFromTemporary(t) == t

W_HandOver ==
    /\ Live
    /\ UNCHANGED callerVars
    /\ wpc = "select"
    /\ HandOverDue
    /\ mutex = "free"
    /\ oNear' = tNear
    /\ orig' = TakenFromTemporary(temp)
    /\ temp' = NoTree /\ tNear' = FALSE
    /\ LET cleared == HandOverSubscriptions(subList)
           flags == [k \in Lossy |-> TRUE]
       IN /\ subList' = [k \in Kinds |->
                            NotifiedList(cleared, temp, flags, k)]
          /\ subLast' = NotifiedLast(cleared, temp, flags)
          /\ fired' = FiredKinds(cleared, flags)
    /\ onTemp' = FALSE
    /\ evlog' = <<>>
    /\ UNCHANGED <<syncVars, now, mutex, wpc, wArg, downloads, wake, subSt,
                   allQ, allSeen>>

\* select: the wake-up timer fired.
W_Timer ==
    /\ Live
    /\ UNCHANGED callerVars
    /\ wpc = "select" /\ ~HandOverDue
    /\ wake # NoWhen /\ wake <= now
    /\ wake' = NoWhen
    /\ wpc' = "start_dl"
    /\ evlog' = <<>> /\ fired' = {}
    /\ UNCHANGED <<syncVars, now, orig, oNear, temp, tNear, mutex, onTemp,
                   wArg, downloads, subVars>>

\* select: the sync service announces block b; the worker reads the sync
\* service's near-head heuristic.
W_NotifBlock(b, isBest) ==
    /\ Live
    /\ UNCHANGED callerVars
    /\ wpc = "select" /\ ~HandOverDue
    /\ b \notin sKnown /\ b # sFin
    /\ Parent(b) \in sKnown \cup {sFin}
    /\ sKnown' = sKnown \cup {b}
    /\ sBest' = IF isBest THEN b ELSE sBest
    /\ wArg' = [block |-> b, best |-> isBest, near |-> sNear]
    /\ wpc' = "block"
    /\ evlog' = <<>> /\ fired' = {}
    /\ nearAt' = [nearAt EXCEPT ![b] = sNear]
    /\ UNCHANGED <<sFin, sNear, nFail, nResub, now, orig, oNear, temp, tNear,
                   mutex, onTemp, downloads, wake, subVars>>

\* The block is inserted and the output advanced, under the lock.
W_InsertBlock ==
    /\ Live
    /\ UNCHANGED callerVars
    /\ wpc = "block"
    /\ WCanLock
    /\ AdvanceAndNotify(
          input_insert_block(WTree, wArg.block, wArg.best),
          IF wArg.best THEN wArg.near ELSE WNear)
    /\ wArg' = NoArg
    /\ wpc' = "start_dl"
    /\ UNCHANGED <<syncVars, now, mutex, onTemp, downloads, wake>>

\* A finalize that leaves the unused runtimes in the tree.
FinalizeKeepsUnused == FALSE

\* "Clean up unused runtimes to free up resources": finalize ends with
\* for _ in drain_unused_runtimes() {}.
FinalizeDrains == TRUE

\* select: the sync service finalizes h; Background::finalize.
W_NotifFinalized(h, best) ==
    /\ Live
    /\ UNCHANGED callerVars
    /\ wpc = "select" /\ ~HandOverDue
    /\ WCanLock
    /\ h \in sKnown
    /\ best \in sKnown /\ IsAncOrEq(h, best)
    /\ sFin' = h
    /\ sKnown' = {b \in sKnown : b # h /\ IsAncOrEq(h, b)}
    /\ sBest' = best
    /\ AdvanceAndNotifyThen(input_finalize(WTree, h, best), WNear,
                            FinalizeDrains)
    /\ wpc' = "start_dl"
    /\ UNCHANGED <<sNear, nearAt, nFail, nResub, now, mutex, onTemp, wArg, downloads,
                   wake>>

\* select: the stream of notifications ends (the sync service may have moved
\* to a later finalized block); back to the outer loop.
W_StreamEnd(f) ==
    /\ Live
    /\ UNCHANGED callerVars
    /\ wpc = "select" /\ ~HandOverDue
    /\ nResub < MaxResubs
    /\ nResub' = nResub + 1
    /\ IsAncOrEq(sFin, f)
    /\ sFin' = f
    /\ sKnown' = {b \in sKnown : b # f /\ IsAncOrEq(f, b)}
    /\ sBest' = IF IsAncOrEq(f, sBest) THEN sBest ELSE f
    /\ wpc' = "subscribe"
    /\ evlog' = <<>> /\ fired' = {}
    /\ UNCHANGED <<sNear, nearAt, nFail, now, orig, oNear, temp, tNear, mutex, onTemp,
                   wArg, downloads, wake, subVars>>

\* select: a download succeeded; best_near_head_of_chain is set under a
\* first lock.
W_DownloadOk(id) ==
    /\ Live
    /\ UNCHANGED callerVars
    /\ wpc = "select" /\ ~HandOverDue
    /\ id \in downloads
    /\ WCanLock
    /\ downloads' = downloads \ {id}
    /\ SetWAfter(WTree, TRUE)
    /\ wArg' = [NoArg EXCEPT !.block = id]
    /\ wpc' = "finished"
    /\ evlog' = <<>> /\ fired' = {}
    /\ UNCHANGED <<syncVars, now, mutex, onTemp, wake, subVars>>

\* Background::runtime_download_finished with the storage of the block.
W_DownloadFinished ==
    /\ Live
    /\ UNCHANGED callerVars
    /\ wpc = "finished"
    /\ WCanLock
    /\ LET id == wArg.block
           existing == FindRuntime(WTree, CodeAt(id), HeapAt(id))
           t == IF existing # {}
                THEN runtime_download_finished_existing(
                        WTree, id, CHOOSE r \in existing : TRUE)
                ELSE runtime_download_finished_new(
                        WTree, id, NewRuntime(CodeAt(id), HeapAt(id), FALSE))
       IN AdvanceAndNotify(t, WNear)
    /\ wArg' = NoArg
    /\ wpc' = "start_dl"
    /\ UNCHANGED <<syncVars, now, mutex, onTemp, downloads, wake>>

\* select: a download failed.
W_DownloadErr(id) ==
    /\ Live
    /\ UNCHANGED callerVars
    /\ wpc = "select" /\ ~HandOverDue
    /\ id \in downloads
    /\ nFail < MaxFailures
    /\ nFail' = nFail + 1
    /\ WCanLock
    /\ downloads' = downloads \ {id}
    /\ SetWAfter(runtime_download_failure(WTree, id, now), WNear)
    /\ wpc' = "start_dl"
    /\ evlog' = <<>> /\ fired' = {}
    /\ UNCHANGED <<sFin, sKnown, sBest, sNear, nearAt, nResub, now, mutex, onTemp,
                   wArg, wake, subVars>>

(***************************************************************************)
(* The runtime locks (RuntimeLock, RuntimeCallLock), used by one caller.   *)
(***************************************************************************)
otherVars == <<sFin, sKnown, sBest, sNear, nearAt, now, nFail, nResub, oNear, temp,
               tNear, wpc, onTemp, wArg, downloads, wake, subList, subSt,
               subLast, allQ, allSeen, evlog, fired>>

\* A fetch that returns a virtual machine whatever the network and the
\* storage of the block say.
NetworkBlockInfoAlwaysOk(h, net) == TRUE

\* network_block_info(h) succeeds if the network answers and the virtual
\* machine builds from the storage of the block.
NetworkBlockInfoOk(h, net) ==
    net /\ CodeAt(h) # 0 /\ HeapAt(h) # 2 /\ CodeAt(h) # 3

\* recent_best_block_runtime_lock / recent_finalized_block_runtime_lock.
RecentLock(h, via) ==
    /\ Live
    /\ cpc = "idle"
    /\ mutex = "free"
    /\ mutex' = "caller"
    /\ cBlock' = h
    /\ cKind' = via
    /\ cpc' = "lock"
    /\ UNCHANGED <<orig, cGuarded, cProof, cRt, cLast, panicked, otherVars>>

C_RecentBest == RecentLock(best_block_hash(orig), "best")

C_RecentFinalized == RecentLock(finalized_block_hash(orig), "fin")

\* runtime_lock(h): an in-tree handle if the tree has a runtime for h;
\* otherwise network_block_info is awaited, with `guarded` still in scope.
C_RuntimeLock(h) ==
    /\ Live
    /\ cpc = "idle"
    /\ mutex = "free"
    /\ mutex' = "caller"
    /\ cBlock' = h
    /\ cKind' = IF HasBlockRuntime(orig, h) THEN "hash" ELSE "oot"
    /\ cpc' = IF HasBlockRuntime(orig, h) THEN "lock" ELSE "lock_net"
    /\ UNCHANGED <<orig, cGuarded, cProof, cRt, cLast, panicked, otherVars>>

\* network_block_info returns: Some(OutOfTree handle) or None; `guarded`
\* goes out of scope.
C_RuntimeLockNet(net) ==
    /\ Live
    /\ cpc = "lock_net"
    /\ mutex' = "free"
    /\ cpc' = IF NetworkBlockInfoOk(cBlock, net) THEN "lock" ELSE "idle"
    /\ cBlock' = IF NetworkBlockInfoOk(cBlock, net) THEN cBlock ELSE NoBlock
    /\ cKind' = IF NetworkBlockInfoOk(cBlock, net) THEN cKind ELSE "none"
    /\ UNCHANGED <<orig, cGuarded, cProof, cRt, cLast, panicked, otherVars>>

\* The RuntimeLock is dropped without start().
C_DropLock ==
    /\ Live
    /\ cpc = "lock"
    /\ mutex' = "free"
    /\ cpc' = "idle" /\ cBlock' = NoBlock /\ cKind' = "none"
    /\ UNCHANGED <<orig, cGuarded, cProof, cRt, cLast, panicked, otherVars>>

\* start(): the lock on `guarded` is dropped and the call proof requested.
C_Start ==
    /\ Live
    /\ cpc = "lock"
    /\ mutex' = "free"
    /\ cpc' = "proof"
    /\ UNCHANGED <<orig, cBlock, cKind, cGuarded, cProof, cRt, cLast,
                   panicked, otherVars>>

\* What start() does once the call proof query has returned, for an in-tree
\* handle whose lock on `guarded` has been taken again.
StartOutcome(t, h) ==
    IF ~HasBlockRuntime(t, h) THEN "fetch"
    ELSE IF block_runtime(t, h).res # "ok" THEN "InvalidRuntime"
    ELSE IF ~block_runtime(t, h).vm THEN "panic"
    ELSE "extract"

\* A start() whose call lock always references the tree.
StartGuardedAlways(o) == TRUE

\* RuntimeCallLock::guarded is Some only if the virtual machine was taken
\* from the tree.
StartGuarded(o) == o = "extract"

\* A start() that releases the lock on `guarded` once the virtual machine is
\* extracted.
KeepsLockOnFetchOnly(o) == o = "fetch"

\* start() keeps the lock on `guarded` it has taken again: in the call lock
\* when the virtual machine was extracted, across network_block_info when the
\* block is no longer in the tree; an InvalidRuntime return releases it.
KeepsLock(o) == o \in {"fetch", "extract"}

\* The call proof query returns (Ok or Err, kept in the call lock); start()
\* goes on to find a virtual machine.
C_ProofDone(ok) ==
    /\ Live
    /\ cpc = "proof"
    /\ IF cKind = "oot"
       THEN /\ cpc' = "call" /\ cGuarded' = FALSE /\ cRt' = NoRt
            /\ cProof' = ok
            /\ UNCHANGED <<orig, mutex, cBlock, cKind, panicked>>
       ELSE /\ mutex = "free"
            /\ LET o == StartOutcome(orig, cBlock)
                   on == o \in {"fetch", "extract"}
               IN
               /\ cpc' = IF o = "fetch" THEN "start_net"
                         ELSE IF o = "extract" THEN "call" ELSE "idle"
               /\ mutex' = IF KeepsLock(o) THEN "caller" ELSE "free"
               /\ cGuarded' = StartGuarded(o)
               /\ cRt' = IF o = "extract" THEN orig.rt[cBlock] ELSE NoRt
               /\ orig' = IF o = "extract"
                          THEN [orig EXCEPT !.rts[orig.rt[cBlock]].vm = FALSE]
                          ELSE orig
               /\ panicked' = IF o = "panic" THEN "start" ELSE panicked
               /\ cBlock' = IF on THEN cBlock ELSE NoBlock
               /\ cKind' = IF on THEN cKind ELSE "none"
               /\ cProof' = IF on THEN ok ELSE TRUE
    /\ UNCHANGED <<cLast, otherVars>>

\* The block was pruned: network_block_info is awaited inside the scope of
\* the lock on `guarded`; the call lock does not reference the tree.
C_StartNet(net) ==
    /\ Live
    /\ cpc = "start_net"
    /\ mutex' = "free"
    /\ cpc' = IF NetworkBlockInfoOk(cBlock, net) THEN "call" ELSE "idle"
    /\ cBlock' = IF NetworkBlockInfoOk(cBlock, net) THEN cBlock ELSE NoBlock
    /\ cKind' = IF NetworkBlockInfoOk(cBlock, net) THEN cKind ELSE "none"
    /\ cProof' = IF NetworkBlockInfoOk(cBlock, net) THEN cProof ELSE TRUE
    /\ cGuarded' = (NetworkBlockInfoOk(cBlock, net) /\ StartGuarded("fetch"))
    /\ cRt' = NoRt
    /\ UNCHANGED <<orig, cLast, panicked, otherVars>>

\* An unlock that fills the slot of the record of the best block.
UnlockTargetBest(t, h) == t.rt[t.outBest]

\* The record RuntimeCallLock::unlock puts the virtual machine back into.
UnlockTarget(t, h) == t.rt[h]

\* unlock(vm), up to the point where `self` goes out of scope.
C_Unlock ==
    /\ Live
    /\ cpc = "call"
    /\ orig' = IF cGuarded
               THEN [orig EXCEPT !.rts[UnlockTarget(orig, cBlock)].vm = TRUE]
               ELSE orig
    /\ cpc' = "unlocked"
    /\ UNCHANGED <<mutex, cBlock, cKind, cGuarded, cProof, cRt, cLast,
                   panicked, otherVars>>

\* A drop that never checks the slot.
DropPanicsNever(guarded, t, h) == FALSE

\* impl Drop for RuntimeCallLock: panics if the call lock references the
\* tree and the slot of the virtual machine is empty.
DropPanics(guarded, t, h) == guarded /\ ~block_runtime(t, h).vm

DropCallLock(how) ==
    /\ Live
    /\ panicked' = IF DropPanics(cGuarded, orig, cBlock) THEN "drop"
                   ELSE panicked
    /\ cLast' = [how |-> how, guarded |-> cGuarded]
    /\ mutex' = IF cGuarded THEN "free" ELSE mutex
    /\ cpc' = "ended" /\ cBlock' = NoBlock /\ cKind' = "none"
    /\ cGuarded' = FALSE /\ cRt' = NoRt /\ cProof' = TRUE
    /\ UNCHANGED <<orig, otherVars>>

\* The end of unlock(): the call lock is dropped.
C_Unlocked == cpc = "unlocked" /\ DropCallLock("unlock")

\* The call lock is dropped without unlock().
C_DropCall == cpc = "call" /\ DropCallLock("drop")

\* The caller goes on.
C_Return ==
    /\ Live
    /\ cpc = "ended"
    /\ cpc' = "idle" /\ cLast' = NoLast
    /\ UNCHANGED <<orig, mutex, cBlock, cKind, cGuarded, cProof, cRt,
                   panicked, otherVars>>

Caller ==
    \/ C_RecentBest
    \/ C_RecentFinalized
    \/ \E h \in Blocks0 : C_RuntimeLock(h)
    \/ \E net \in BOOLEAN : C_RuntimeLockNet(net)
    \/ C_DropLock
    \/ C_Start
    \/ \E ok \in BOOLEAN : C_ProofDone(ok)
    \/ \E net \in BOOLEAN : C_StartNet(net)
    \/ C_Unlock
    \/ C_Unlocked
    \/ C_DropCall
    \/ C_Return

(***************************************************************************)
(* RuntimeService::metadata.                                               *)
(***************************************************************************)
\* "First, try the cache": on a hit or an invalid runtime the function
\* returns at once; on a miss it goes on, the lock released.
M_CacheCheck ==
    /\ Live
    /\ cpc = "idle"
    /\ mutex = "free"
    /\ cpc' = IF best_block_runtime(orig).res = "ok"
                 /\ best_block_runtime(orig).meta = 0
              THEN "m_miss" ELSE "idle"
    /\ UNCHANGED <<orig, mutex, cBlock, cKind, cGuarded, cProof, cRt, cLast,
                   panicked, otherVars>>

\* self.recent_best_block_runtime_lock().await
M_Lock ==
    /\ Live
    /\ cpc = "m_miss"
    /\ mutex = "free"
    /\ mutex' = "caller"
    /\ cBlock' = best_block_hash(orig)
    /\ cKind' = "meta"
    /\ cpc' = "lock"
    /\ UNCHANGED <<orig, cGuarded, cProof, cRt, cLast, panicked, otherVars>>

\* The record metadata() writes the metadata into: best_block_runtime_mut().
MetadataTarget(t) == t.rt[best_block_hash(t)]

\* The metadata query runs on the virtual machine start() returned; if it
\* finishes with Ok and the call lock holds `guarded`, the metadata is
\* written into the tree; then unlock(virtual_machine).
M_Query(ok) ==
    /\ Live
    /\ cpc = "call" /\ cKind = "meta"
    /\ LET target == MetadataTarget(orig)
           write == ok /\ cGuarded
           written == IF write
                      THEN [orig EXCEPT !.rts[target].meta = orig.rts[cRt].code]
                      ELSE orig
       IN IF write /\ orig.rts[target].res # "ok"
          THEN /\ panicked' = "metadata"
               /\ UNCHANGED <<orig, cpc>>
          ELSE /\ orig' = IF cGuarded
                          THEN [written EXCEPT
                                  !.rts[UnlockTarget(orig, cBlock)].vm = TRUE]
                          ELSE written
               /\ cpc' = "unlocked"
               /\ UNCHANGED panicked
    /\ UNCHANGED <<mutex, cBlock, cKind, cGuarded, cProof, cRt, cLast,
                   otherVars>>

Metadata ==
    \/ M_CacheCheck
    \/ M_Lock
    \/ C_Start
    \/ \E ok \in BOOLEAN : C_ProofDone(ok)
    \/ \E net \in BOOLEAN : C_StartNet(net)
    \/ \E ok \in BOOLEAN : M_Query(ok)
    \/ C_Unlocked
    \/ C_Return

(***************************************************************************)
(* RuntimeService::new on any genesis storage.                             *)
(***************************************************************************)
GenesisCodes == 0 .. 4
GenesisHeapPages == 0 .. 2

\* Before new(): no service yet.
InitNew ==
    /\ ServiceInitFrom(EmptyTree(0), "new")
    /\ kvTrie = {} /\ kvProof = "full" /\ kvPrefix = <<>> /\ kvRes = NoRes
    /\ UnitIdle

\* Whether new() panics: only the metadata query of a runtime that built
\* can ("Unable to generate genesis metadata").
NewPanics(code, heap_pages, metaOk) ==
    from_params(code, heap_pages) = "ok" /\ ~metaOk

\* new(config): code and heap_pages are the :code and :heappages of the
\* genesis storage, metaOk whether the metadata query on the genesis storage
\* finishes with Ok.
New(code, heap_pages, metaOk) ==
    /\ Live
    /\ wpc = "new"
    /\ IF NewPanics(code, heap_pages, metaOk)
       THEN /\ panicked' = "new"
            /\ UNCHANGED <<orig, oNear, wpc>>
       ELSE /\ orig' = from_finalized_block_and_runtime(
                           0, NewRuntime(code, heap_pages, TRUE))
            /\ oNear' = sNear
            /\ wpc' = "subscribe"
            /\ UNCHANGED panicked
    /\ UNCHANGED <<syncVars, now, temp, tNear, mutex, onTemp, wArg, downloads,
                   wake, subVars, cpc, cBlock, cKind, cGuarded, cProof, cRt,
                   cLast, evlog, fired>>

(***************************************************************************)
(* Subscribers of the original service.                                    *)
(***************************************************************************)
nonSubVars == <<sFin, sKnown, sBest, sNear, nearAt, now, nFail, nResub, orig, oNear,
                temp, tNear, mutex, wpc, onTemp, wArg, downloads, wake,
                cpc, cBlock, cKind, cGuarded, cProof, cRt, cLast, panicked>>

\* subscribe_best, subscribe_finalized, subscribe_runtime_version: the sender
\* is pushed on the list and the current value returned, under the lock.
Subscribe(k, i) ==
    /\ Live
    /\ k \in Lossy
    /\ subSt[k][i] = "new"
    /\ mutex = "free"
    /\ subList' = [subList EXCEPT ![k] = Append(@, i)]
    /\ subSt' = [subSt EXCEPT ![k][i] = "open"]
    /\ subLast' = [subLast EXCEPT ![k][i] = NotifValue(orig, k)]
    /\ evlog' = <<>> /\ fired' = {}
    /\ UNCHANGED <<allQ, allSeen, nonSubVars>>

\* non_finalized_blocks_headers_ancestry_order(): the blocks of the output,
\* a parent before its children.
RECURSIVE AncestryOrder(_)
AncestryOrder(blocks) ==
    IF blocks = {} THEN <<>>
    ELSE LET b == CHOOSE x \in blocks :
                     \A y \in blocks :
                        Height(x) < Height(y) \/ (Height(x) = Height(y) /\ x <= y)
         IN <<b>> \o AncestryOrder(blocks \ {b})

\* A subscribe_all that returns the finalized block alone.
SnapshotWithoutBlocks(t) ==
    [fin |-> finalized_block_hash(t), blocks |-> <<>>, sent |-> <<>>]

\* What subscribe_all returns besides the channel: the finalized block and
\* one BlockNotification per non-finalized block, its parent_hash decoded
\* from its header.
SubscribeAllSnapshot(t) ==
    LET order == AncestryOrder(non_finalized_blocks_ancestry_order(t)) IN
    [fin |-> finalized_block_hash(t),
     blocks |-> [n \in 1 .. Len(order) |->
                   [block |-> order[n], parent |-> Parent(order[n]),
                    best |-> order[n] = best_block_hash(t)]],
     sent |-> <<>>]

\* subscribe_all(BufferSize).
SubscribeAll(i) ==
    /\ Live
    /\ subSt["all"][i] = "new"
    /\ mutex = "free"
    /\ subList' = [subList EXCEPT !["all"] = Append(@, i)]
    /\ subSt' = [subSt EXCEPT !["all"][i] = "open"]
    /\ allSeen' = [allSeen EXCEPT ![i] = SubscribeAllSnapshot(orig)]
    /\ evlog' = <<>> /\ fired' = {}
    /\ UNCHANGED <<allQ, subLast, nonSubVars>>

\* The subscriber takes the next notification of its all-blocks channel.
ReceiveAll(i) ==
    /\ Live
    /\ subSt["all"][i] = "open"
    /\ allQ[i] # <<>>
    /\ allQ' = [allQ EXCEPT ![i] = Tail(@)]
    /\ evlog' = <<>> /\ fired' = {}
    /\ UNCHANGED <<subList, subSt, subLast, allSeen, nonSubVars>>

\* The subscriber drops its receiver.
DropReceiver(k, i) ==
    /\ Live
    /\ subSt[k][i] = "open"
    /\ subSt' = [subSt EXCEPT ![k][i] = "dropped"]
    /\ allQ' = IF k = "all" THEN [allQ EXCEPT ![i] = <<>>] ELSE allQ
    /\ allSeen' = IF k = "all" THEN [allSeen EXCEPT ![i] = NoSeen] ELSE allSeen
    /\ evlog' = <<>> /\ fired' = {}
    /\ UNCHANGED <<subList, subLast, nonSubVars>>

Subscribers(kinds) ==
    \/ \E k \in kinds, i \in SubIds : Subscribe(k, i)
    \/ \E k \in kinds, i \in SubIds : DropReceiver(k, i)

(***************************************************************************)
(* RuntimeCallLock::storage_prefix_keys_ordered.                           *)
(***************************************************************************)
Nibbles == 0 .. MaxNibble
Bytes == {hi * 16 + lo : hi \in Nibbles, lo \in Nibbles}
KeysOfLen(n) == [1 .. n -> Bytes]
Keys == UNION {KeysOfLen(n) : n \in 0 .. MaxKeyLen}

\* The sets of at most n keys.
RECURSIVE Tries(_)
Tries(n) ==
    IF n = 0 THEN {{}}
    ELSE LET s == Tries(n - 1) IN s \cup {x \cup {k} : x \in s, k \in Keys}

\* trie::bytes_to_nibbles and trie::nibbles_to_bytes_extend.
RECURSIVE bytes_to_nibbles(_)
bytes_to_nibbles(bytes) ==
    IF bytes = <<>> THEN <<>>
    ELSE <<Head(bytes) \div 16, Head(bytes) % 16>>
         \o bytes_to_nibbles(Tail(bytes))

RECURSIVE nibbles_to_bytes_extend(_)
nibbles_to_bytes_extend(nibbles) ==
    IF Len(nibbles) < 2 THEN <<>>
    ELSE <<nibbles[1] * 16 + nibbles[2]>>
         \o nibbles_to_bytes_extend(Tail(Tail(nibbles)))

IsPrefix(p, k) == Len(p) <= Len(k) /\ SubSeq(k, 1, Len(p)) = p

\* Lexicographic order on sequences of numbers (the Ord of Vec<u8>).
RECURSIVE LexLess(_, _)
LexLess(a, b) ==
    IF b = <<>> THEN FALSE
    ELSE IF a = <<>> THEN TRUE
    ELSE IF Head(a) # Head(b) THEN Head(a) < Head(b)
    ELSE LexLess(Tail(a), Tail(b))

\* output.sort().
RECURSIVE SortInsert(_, _)
SortInsert(sorted, k) ==
    IF sorted = <<>> THEN <<k>>
    ELSE IF LexLess(k, Head(sorted)) THEN <<k>> \o sorted
    ELSE <<Head(sorted)>> \o SortInsert(Tail(sorted), k)

RECURSIVE Sort(_)
Sort(list) ==
    IF list = <<>> THEN <<>>
    ELSE SortInsert(Sort(SubSeq(list, 1, Len(list) - 1)), list[Len(list)])

\* The nodes a proof lets the verifier reach: all of them, or ("partial")
\* only those down to the node of the requested prefix.
Covers(proof, prefix, key) ==
    proof = "full" \/ (proof = "partial" /\ Len(key) <= Len(prefix))

\* proof_verify::trie_node_info for the node at the nibbles `key`: an error
\* if the proof does not reach the node, otherwise whether the node has a
\* storage value and the nibbles of its children.
trie_node_info(trie, proof, prefix, key) ==
    LET stored == {bytes_to_nibbles(k) : k \in trie} IN
    [err |-> ~Covers(proof, prefix, key),
     storage_value |-> key \in stored,
     children |-> {n \in Nibbles :
                     \E k \in stored : IsPrefix(Append(key, n), k)}]

\* The children pushed on to_find, in the order of trie::all_nibbles().
RECURSIVE ChildKeys(_, _, _)
ChildKeys(key, children, n) ==
    IF n > MaxNibble THEN <<>>
    ELSE (IF n \in children THEN <<Append(key, n)>> ELSE <<>>)
         \o ChildKeys(key, children, n + 1)

\* for key in mem::replace(&mut to_find, Vec::new()) { ... }: the loop runs
\* over the vector taken out of to_find before the loop.
RECURSIVE ForKeyIn(_, _, _, _, _, _)
ForKeyIn(taken, i, to_find, output, trie, proof) ==
    IF i > Len(taken) THEN [err |-> FALSE, output |-> output,
                            to_find |-> to_find]
    ELSE LET key == taken[i]
             node_info == trie_node_info(trie, proof, taken[1], key)
         IN IF node_info.err
            THEN [err |-> TRUE, output |-> <<>>, to_find |-> to_find]
            ELSE ForKeyIn(taken, i + 1,
                          to_find \o ChildKeys(key, node_info.children, 0),
                          IF node_info.storage_value
                          THEN Append(output, nibbles_to_bytes_extend(key))
                          ELSE output,
                          trie, proof)

storage_prefix_keys_ordered(trie, proof, prefix) ==
    LET to_find == <<bytes_to_nibbles(prefix)>> IN
    IF proof = "err"
    THEN [ok |-> FALSE, keys |-> <<>>, called |-> TRUE, err |-> "CallProof"]
    ELSE LET r == ForKeyIn(to_find, 1, <<>>, <<>>, trie, proof) IN
         IF r.err
         THEN [ok |-> FALSE, keys |-> <<>>, called |-> TRUE,
               err |-> "StorageRetrieval"]
         ELSE [ok |-> TRUE, keys |-> Sort(r.output), called |-> TRUE,
               err |-> "none"]

\* proof_verify::verify_proof for the key requested_key, on a proof built for
\* the key `base`: an error if the proof does not reach the node of the key,
\* otherwise whether the key has a value.
verify_proof(trie, proof, base, requested_key) ==
    [err |-> ~Covers(proof, bytes_to_nibbles(base),
                     bytes_to_nibbles(requested_key)),
     value |-> requested_key \in trie]

\* RuntimeCallLock::storage_entry; keys holds the key if it has a value.
storage_entry(trie, proof, base, requested_key) ==
    IF proof = "err"
    THEN [ok |-> FALSE, keys |-> <<>>, called |-> TRUE, err |-> "CallProof"]
    ELSE LET v == verify_proof(trie, proof, base, requested_key) IN
         IF v.err
         THEN [ok |-> FALSE, keys |-> <<>>, called |-> TRUE,
               err |-> "StorageRetrieval"]
         ELSE [ok |-> TRUE,
               keys |-> IF v.value THEN <<requested_key>> ELSE <<>>,
               called |-> TRUE, err |-> "none"]

\* A call lock that forgets that the call proof query failed.
CallProofForgotten(stored, proof) == proof

\* RuntimeCallLock::call_proof: the proof the query returned, or its error.
CallProofOf(stored, proof) == IF stored THEN proof ELSE "err"

\* The trie of the block of the calls, the key its proofs are built for, and
\* the keys and prefixes the caller asks for.
ProofTrie == {<<0>>, <<0, 1>>}
ProofBase == <<0>>
StorageKeys == {<<>>, <<0>>, <<0, 1>>}

InitProof ==
    /\ ServiceInit
    /\ kvTrie = ProofTrie
    /\ kvProof \in {"full", "partial"}
    /\ kvPrefix = ProofBase
    /\ kvRes = NoRes
    /\ UnitIdle

\* storage_entry(key) on the call lock the caller holds.
C_StorageEntry(key) ==
    /\ panicked = "no"
    /\ cpc = "call"
    /\ kvRes' = storage_entry(kvTrie, CallProofOf(cProof, kvProof), kvPrefix,
                              key)
    /\ UNCHANGED <<kvTrie, kvProof, kvPrefix, serviceVars, unitVars>>

\* storage_prefix_keys_ordered(prefix) on the call lock the caller holds.
C_StoragePrefixKeysOrdered(prefix) ==
    /\ panicked = "no"
    /\ cpc = "call"
    /\ kvRes' = storage_prefix_keys_ordered(
                    kvTrie, CallProofOf(cProof, kvProof), prefix)
    /\ UNCHANGED <<kvTrie, kvProof, kvPrefix, serviceVars, unitVars>>

\* A call lock over some call proof, and a prefix.
InitTrie ==
    /\ ServiceInit
    /\ kvTrie \in Tries(MaxKeys)
    /\ kvProof \in {"full", "partial", "err"}
    /\ kvPrefix \in Keys
    /\ kvRes = NoRes
    /\ UnitIdle

CallStoragePrefixKeysOrdered ==
    /\ ~kvRes.called
    /\ kvRes' = storage_prefix_keys_ordered(kvTrie, kvProof, kvPrefix)
    /\ UNCHANGED <<kvTrie, kvProof, kvPrefix, serviceVars, unitVars>>

(***************************************************************************)
(* The environment: the clock and the sync service's heuristic.            *)
(***************************************************************************)
Tick ==
    /\ Live
    /\ UNCHANGED callerVars
    /\ now < MaxTime
    /\ now' = now + 1
    /\ UNCHANGED <<syncVars, orig, oNear, temp, tNear, mutex, workerVars,
                   subVars, evlog, fired>>

ToggleNear ==
    /\ Live
    /\ UNCHANGED callerVars
    /\ sNear' = ~sNear
    /\ UNCHANGED <<sFin, sKnown, sBest, nearAt, nFail, nResub, now, orig, oNear,
                   temp, tNear, mutex, workerVars, subVars, evlog, fired>>

WorkerCore ==
    \/ W_Subscribe
    \/ W_StartDownloads
    \/ W_HandOver
    \/ \E b \in Blocks0, isBest \in BOOLEAN : W_NotifBlock(b, isBest)
    \/ W_InsertBlock
    \/ \E h \in Blocks0, best \in Blocks0 : W_NotifFinalized(h, best)
    \/ \E id \in Blocks0 : W_DownloadOk(id)
    \/ W_DownloadFinished

WorkerRetry ==
    \/ W_Timer
    \/ \E id \in Blocks0 : W_DownloadErr(id)
    \/ Tick

WorkerResub == \E f \in Blocks0 : W_StreamEnd(f)

\* The worker with failing downloads and the clock.
Next == WorkerCore \/ WorkerRetry

Spec == Init /\ [][Next]_vars

\* The worker and a caller of the runtime locks.
NextCall == WorkerCore \/ Caller

SpecCall == Init /\ [][NextCall]_vars

\* The worker, the subscribers of the best block and of the finalized block,
\* and a caller of the recent_*_runtime_lock functions.
NextSubs ==
    \/ WorkerCore
    \/ Subscribers({"best", "fin"})
    \/ C_RecentBest
    \/ C_RecentFinalized
    \/ C_DropLock

SpecSubs == Init /\ [][NextSubs]_vars

\* The worker and the subscribers of the runtime version.
NextRtv == WorkerCore \/ Subscribers({"rtv"})

SpecRtv == Init /\ [][NextRtv]_vars

\* The worker under the scheduling of its select loop: a step of the worker
\* that stays possible is taken, a download that can complete does, the
\* clock advances.  Nothing is assumed of the blocks and finalizations the
\* sync service sends nor of the failures of the downloads.
\* Weak fairness of start_necessary_downloads and of
\* runtime_download_finished is written out, ENABLED being the guard of the
\* action: both always change wpc.
StartDownloadsEnabled == panicked = "no" /\ wpc = "start_dl" /\ WCanLock

DownloadFinishedEnabled == panicked = "no" /\ wpc = "finished" /\ WCanLock

Fairness ==
    /\ WF_vars(W_Subscribe)
    /\ []<>(~StartDownloadsEnabled) \/ []<><<W_StartDownloads>>_vars
    /\ WF_vars(W_HandOver)
    /\ WF_vars(W_Timer)
    /\ WF_vars(W_InsertBlock)
    /\ []<>(~DownloadFinishedEnabled) \/ []<><<W_DownloadFinished>>_vars
    /\ WF_vars(\E id \in Blocks0 : W_DownloadOk(id))
    /\ WF_vars(Tick)

SpecLive == Init /\ [][Next]_vars /\ Fairness

\* The worker with failing downloads and a stream of notifications that
\* ends.
NextResub ==
    \/ WorkerCore
    \/ \E id \in Blocks0 : W_DownloadErr(id)
    \/ WorkerResub

SpecResub == Init /\ [][NextResub]_vars

\* The worker with stream closures and a caller of the
\* recent_*_runtime_lock functions.
NextPub ==
    \/ WorkerCore
    \/ WorkerResub
    \/ C_RecentBest
    \/ C_RecentFinalized
    \/ C_DropLock

SpecPub == Init /\ [][NextPub]_vars

\* The worker with failing downloads and stream closures, and subscribers of
\* the best block.
NextTemp ==
    \/ WorkerCore
    \/ \E id \in Blocks0 : W_DownloadErr(id)
    \/ WorkerResub
    \/ \E i \in SubIds : Subscribe("best", i)

SpecTemp == Init /\ [][NextTemp]_vars

\* The worker and a sync service that gets near the head of the chain and
\* far from it.
NextNear == WorkerCore \/ ToggleNear

SpecNear == Init /\ [][NextNear]_vars

\* The worker with subscribers of every kind that subscribe and never leave.
NextHand ==
    \/ WorkerCore
    \/ \E k \in Lossy, i \in SubIds : Subscribe(k, i)
    \/ \E i \in SubIds : SubscribeAll(i)

SpecHand == Init /\ [][NextHand]_vars

\* The worker with all-blocks subscribers.
NextAll ==
    \/ WorkerCore
    \/ \E i \in SubIds : SubscribeAll(i)
    \/ \E i \in SubIds : ReceiveAll(i)
    \/ \E i \in SubIds : DropReceiver("all", i)

SpecAll == Init /\ [][NextAll]_vars

\* new() on any genesis storage, then the worker.
NextNew ==
    \/ \E code \in GenesisCodes, heap_pages \in GenesisHeapPages,
          metaOk \in BOOLEAN : New(code, heap_pages, metaOk)
    \/ WorkerCore

SpecNew == InitNew /\ [][NextNew]_vars

\* The worker and a caller of metadata().
NextMeta == WorkerCore \/ Metadata

SpecMeta == Init /\ [][NextMeta]_vars

\* The worker and a caller that locks the best block, starts a call and
\* reads the storage through the call lock.
NextProof ==
    \/ WorkerCore
    \/ C_RecentBest
    \/ C_Start
    \/ \E ok \in BOOLEAN : C_ProofDone(ok)
    \/ \E net \in BOOLEAN : C_StartNet(net)
    \/ \E key \in StorageKeys : C_StorageEntry(key)
    \/ \E prefix \in StorageKeys : C_StoragePrefixKeysOrdered(prefix)
    \/ C_Unlock
    \/ C_Unlocked
    \/ C_Return

SpecProof == InitProof /\ [][NextProof]_vars

\* Calls of storage_prefix_keys_ordered on every small call proof.
NextTrie == CallStoragePrefixKeysOrdered

SpecTrie == InitTrie /\ [][NextTrie]_vars

(***************************************************************************)
(* Properties.                                                             *)
(***************************************************************************)
BlockEvents == {i \in 1 .. Len(evlog) : evlog[i].ev.type = "Block"}

OutputDone(t) ==
    /\ has_output(t)
    /\ \A b \in t.out \cup {finalized_block_hash(t), best_block_hash(t)} :
          t.st[b] = "done"

\* C1: every block that try_advance_output emits has its runtime in the
\* done state when it is emitted, and the service always has an output whose
\* finalized block, best block and other blocks have a done runtime.
C1_OnlyDoneBlocksExposed ==
    /\ \A i \in 1 .. Len(evlog) : evlog[i].state = "done"
    /\ OutputDone(orig)
    /\ (onTemp /\ has_output(temp)) => OutputDone(temp)

\* A block has been announced to the service while another block of the
\* tree, whose download failed, is kept back.
C1_Witness ==
    /\ ~onTemp
    /\ BlockEvents # {}
    /\ \E b \in TreeBlocks(orig) : orig.st[b] # "done" /\ b \notin orig.out
    /\ nFail > 0

\* C2: the worker never has more than two runtime downloads in flight.
C2_AtMostTwoDownloads == Cardinality(downloads) <= MaxParallel

\* Two downloads in flight, at least one of them of a block the tree has
\* pruned in the meantime, and the tree has another download to start.
C2_Witness ==
    /\ Cardinality(downloads) = MaxParallel
    /\ Cardinality(Downloading(WTree)) < MaxParallel
    /\ next_necessary_download(WTree, now).ready

\* C3: whenever a RuntimeCallLock is dropped without unlock, the process
\* has panicked in the drop.
C3_DropWithoutUnlockAborts == cLast.how = "drop" => panicked = "drop"

\* C3, amended: a RuntimeCallLock dropped without unlock panics exactly
\* when it holds the lock on `guarded`, that is when start() found the block
\* in the tree; after unlock the drop never panics.
C3_DropAbortsIffGuarded ==
    /\ cLast.how = "drop" => ((panicked = "drop") <=> cLast.guarded)
    /\ cLast.how = "unlock" => panicked = "no"

C3_Witness == cLast.how = "drop" /\ cLast.guarded /\ panicked = "drop"

\* C4: during a call on a block of the tree the slot of the record of that
\* block is empty; once unlock has run it is filled again, in the record of
\* the same block, and the drop that follows does not panic.
C4_VmLeasedAndReturned ==
    /\ (cpc = "call" /\ cGuarded) =>
          /\ cRt = orig.rt[cBlock]
          /\ ~block_runtime(orig, cBlock).vm
    /\ (cpc = "unlocked" /\ cGuarded) =>
          /\ cRt = orig.rt[cBlock]
          /\ block_runtime(orig, cBlock).vm
    /\ cLast.how = "unlock" => panicked = "no"

\* unlock has run on a call against a block whose record is not the one of
\* the best block.
C4_Witness ==
    /\ cpc = "unlocked" /\ cGuarded
    /\ orig.rt[cBlock] # orig.rt[best_block_hash(orig)]

\* C5: a caller that awaits a query to the sync service does not hold the
\* lock on `guarded`.
C5_NoQueryUnderLock ==
    cpc \in {"lock_net", "proof", "start_net"} => mutex # "caller"

\* C6: a Block event of a new best block carries the runtime upgrade flag
\* exactly when the record of the block is not the record of the previous
\* best block at output, and the worker sets best_block_runtime_changed for
\* a Block event exactly in that case.
C6_RuntimeUpgradeIffRecordDiffers ==
    \A i \in BlockEvents :
        LET e == evlog[i]
            differs == e.ev.best # "NotNewBest" /\ e.rtNew # e.rtPrev
        IN /\ (e.ev.best = "NewBestAndRuntimeUpgrade") <=> differs
           /\ e.rtChanged <=> differs

\* The same call has output a new best block with the record of the
\* previous one and a new best block with another record.
C6_Witness ==
    /\ \E i \in BlockEvents : evlog[i].ev.best = "NewBestAndRuntimeUpgrade"
                                /\ evlog[i].rtChanged
    /\ \E i \in BlockEvents : evlog[i].ev.best = "NewBest"

\* C7: an item is sent to the subscribers of the runtime version only by a
\* step that changes the runtime record of the best block of the service
\* (the hand-over of a new tree counts as a change).
C7_RuntimeVersionOnlyOnChange ==
    [][ "rtv" \in fired' =>
            \/ onTemp /\ ~onTemp'
            \/ orig'.rt[best_block_hash(orig')] # orig.rt[best_block_hash(orig)]
      ]_vars

\* C8: the parent of every block that is output is, when the block is
\* output, the finalized block or a block that was output earlier.
C8_ParentOutputFirst ==
    \A i \in BlockEvents : evlog[i].ev.parent \in evlog[i].before

\* One call has output a block and then a child of it.
C8_Witness ==
    \E i \in BlockEvents, j \in BlockEvents :
        i < j /\ evlog[j].ev.parent = evlog[i].ev.block

\* The keys of the trie that start with the prefix, in lexicographic order.
RECURSIVE SortedSeqOf(_)
SortedSeqOf(S) ==
    IF S = {} THEN <<>>
    ELSE LET k == CHOOSE x \in S : \A y \in S \ {x} : LexLess(x, y)
         IN <<k>> \o SortedSeqOf(S \ {k})

KeysWithPrefix(trie, prefix) == {k \in trie : IsPrefix(prefix, k)}

\* C9: storage_prefix_keys_ordered returns the keys of the proven trie that
\* start with the prefix, every one of them, in lexicographic order, and
\* fails when there is no proof or when the proof does not cover the nodes
\* below the prefix.
C9_ReturnsEveryKeyWithPrefix ==
    kvRes.called =>
        IF \/ kvProof = "err"
           \/ /\ kvProof = "partial"
              /\ \E k \in KeysWithPrefix(kvTrie, kvPrefix) : k # kvPrefix
        THEN ~kvRes.ok
        ELSE /\ kvRes.ok
             /\ kvRes.keys = SortedSeqOf(KeysWithPrefix(kvTrie, kvPrefix))

\* C10: the last item sent to (or returned to) every subscriber of the best
\* block is the best block of the service, the same for the finalized
\* block, and a lock taken with recent_best_block_runtime_lock or
\* recent_finalized_block_runtime_lock is on that block.
C10_LockOnLastNotified ==
    \A i \in SubIds :
        /\ subSt["best"][i] = "open" =>
              /\ subLast["best"][i] = best_block_hash(orig)
              /\ (cpc = "lock" /\ cKind = "best") => cBlock = subLast["best"][i]
        /\ subSt["fin"][i] = "open" =>
              /\ subLast["fin"][i] = finalized_block_hash(orig)
              /\ (cpc = "lock" /\ cKind = "fin") => cBlock = subLast["fin"][i]

\* A lock taken with recent_best_block_runtime_lock on a block that the
\* worker has notified to a subscriber, other than the finalized block.
C10_Witness ==
    /\ cpc = "lock" /\ cKind = "best"
    /\ \E i \in SubIds : subSt["best"][i] = "open" /\ subLast["best"][i] = cBlock
    /\ \E i \in SubIds : subSt["fin"][i] = "open"
    /\ cBlock # finalized_block_hash(orig)
    /\ finalized_block_hash(orig) # 0

\* C11: the metadata cached in a runtime record is the metadata of the
\* runtime of that record: metadata() never writes what it obtained from one
\* record's virtual machine into another record.
C11_MetadataOnlyInItsRecord ==
    \A r \in RtIds :
        (orig.rts[r].used /\ orig.rts[r].meta # 0) =>
            orig.rts[r].meta = orig.rts[r].code

\* C12: when new() returns a service (the worker is about to subscribe for
\* the first time) the genesis runtime has built and holds its metadata;
\* otherwise new() has panicked.
C12_GenesisFailureAborts ==
    (wpc = "subscribe" /\ nResub = 0 /\ panicked = "no") =>
        /\ best_block_runtime(orig).res = "ok"
        /\ best_block_runtime(orig).meta # 0

\* C13: is_near_head_of_chain_heuristic returns true only if the sync
\* service was near the head when it showed the worker the block that is
\* the best block of the service.
C13_NearOnlyIfBestSeenNear ==
    is_near_head_of_chain_heuristic => nearAt[best_block_hash(orig)]

\* C14: whenever the sync service reports not being near the head of the
\* chain, is_near_head_of_chain_heuristic returns false, whatever the cached
\* flag of the service is.
C14_FarSyncMeansFar ==
    ~sNear => (is_near_head_of_chain_heuristic = FALSE)

\* The sync service is far from the head while the cached flag of the
\* handed-over service is true.
C14_Witness ==
    /\ ~sNear
    /\ oNear
    /\ ~onTemp
    /\ is_near_head_of_chain_heuristic = FALSE

\* C15: the worker leaves the temporary service only once its tree has
\* output, and in that one step the tree of the original service becomes the
\* tree of the temporary one, the near-head flag is copied, every all-blocks
\* subscription of the original service is dropped, and every best,
\* finalized and runtime-version subscriber whose receiver is alive stays
\* subscribed and is sent the value of the new tree.
C15_HandOverInOneStep ==
    [][(onTemp /\ ~onTemp') =>
          /\ has_output(temp)
          /\ orig' = temp
          /\ oNear' = tNear
          /\ subList'["all"] = <<>>
          /\ \A k \in Lossy, i \in SubIds :
                (i \in SeqRange(subList[k]) /\ subSt[k][i] = "open") =>
                    /\ i \in SeqRange(subList'[k])
                    /\ subLast'[k][i] = NotifValue(temp, k)]_vars

\* Right after the hand-over: the worker is on the original service, whose
\* tree has an output best block other than block 0, the all-blocks
\* subscriber that was registered has lost its sender, and subscribers of the
\* three other kinds have just been notified.
C15_Witness ==
    /\ ~onTemp
    /\ evlog = <<>>
    /\ fired = Lossy
    /\ best_block_hash(orig) # 0
    /\ \E i \in SubIds :
          /\ subSt["all"][i] = "open"
          /\ i \notin SeqRange(subList["all"])
          /\ subLast["best"][i] = best_block_hash(orig)

\* C16: the channel of subscribe_all(BufferSize) never holds more than
\* BufferSize notifications that the subscriber has not taken yet.
C16_AtMostBufferSizeBuffered ==
    \A i \in SubIds : Len(allQ[i]) <= BufferSize

\* The sum of the reference counts of the runtime records of a tree.
RECURSIVE SumRefcounts(_, _)
SumRefcounts(t, rs) ==
    IF rs = {} THEN 0
    ELSE LET r == CHOOSE x \in rs : TRUE
         IN t.rts[r].rc + SumRefcounts(t, rs \ {r})

\* The blocks of a tree that are bound to a runtime record.
BoundBlocks(t) == {b \in TreeBlocks(t) : t.st[b] = "done"}

\* C17 as stated: in the tree of the service and in the tree of the
\* temporary service, the reference counts of the runtime records add up to
\* the number of blocks of the tree.
C17_RefcountsSumToBlocks ==
    /\ SumRefcounts(orig, RtIds) = Cardinality(TreeBlocks(orig))
    /\ SumRefcounts(temp, RtIds) = Cardinality(TreeBlocks(temp))

\* C17, amended: the reference counts add up to the number of blocks of the
\* tree that are bound to a runtime record, the finalized block counted once;
\* and each record counts exactly the blocks bound to it.
C17_RefcountsSumToBoundBlocks ==
    \A t \in {orig, temp} :
        /\ SumRefcounts(t, RtIds) = Cardinality(BoundBlocks(t))
        /\ \A r \in RtIds :
              t.rts[r].rc = Cardinality({b \in BoundBlocks(t) : t.rt[b] = r})

\* After the hand-over: a record shared by two blocks of the tree, next to a
\* block that has no record yet.
C17_Witness ==
    /\ ~onTemp
    /\ \E r \in RtIds : orig.rts[r].rc = 2
    /\ \E b \in TreeBlocks(orig) : orig.st[b] # "done"

\* C18: no two runtime records of a tree have equal code and equal heap
\* pages, and every block whose download has completed is bound to the
\* record of the code and heap pages of the block.
C18_NoDuplicateRuntime ==
    \A t \in {orig, temp} :
        /\ \A r1, r2 \in RtIds :
              (/\ t.rts[r1].used /\ t.rts[r2].used
               /\ t.rts[r1].code = t.rts[r2].code
               /\ t.rts[r1].hp = t.rts[r2].hp) => r1 = r2
        /\ \A b \in BoundBlocks(t) :
              /\ t.rts[t.rt[b]].used
              /\ t.rts[t.rt[b]].code = CodeAt(b)
              /\ t.rts[t.rt[b]].hp = HeapAt(b)

\* Two blocks whose downloads returned the same code and heap pages share
\* one record, next to a record of another runtime.
C18_Witness ==
    /\ wpc = "select"
    /\ \E b1, b2 \in BoundBlocks(WTree) :
          /\ b1 # b2
          /\ b1 # 0
          /\ WTree.rt[b1] = WTree.rt[b2]
    /\ \E r1, r2 \in RtIds :
          r1 # r2 /\ WTree.rts[r1].used /\ WTree.rts[r2].used

\* C19: on the tree the worker manipulates and at the time of the clock,
\* next_necessary_download never answers Ready with a block that is done,
\* that is downloading, or whose failed download is to be retried only later;
\* and the worker starts downloads of such blocks only.
C19_NoDownloadOfSettledBlock ==
    LET r == next_necessary_download(WTree, now) IN
    /\ r.ready =>
          /\ WTree.st[r.block] \in {"not_started", "failed"}
          /\ WTree.st[r.block] = "failed" => WTree.dl[r.block] <= now
          /\ r.t.st[r.block] = "downloading"
    /\ \A b \in StartLoop(WTree, downloads, wake).dls \ downloads :
          \/ WTree.st[b] = "not_started"
          \/ WTree.st[b] = "failed" /\ WTree.dl[b] <= now

\* The scheduler answers Ready while the tree holds a done block, a block
\* that is downloading and a block in cooldown until later.
C19_Witness ==
    /\ next_necessary_download(WTree, now).ready
    /\ \E b \in Blocks0 : WTree.st[b] = "done"
    /\ \E b \in Blocks0 : WTree.st[b] = "downloading"
    /\ \E b \in Blocks0 : WTree.st[b] = "failed" /\ WTree.dl[b] > now

\* The earliest next-attempt timestamp of the blocks in cooldown.
Deadline(t, n) ==
    CHOOSE d \in {t.dl[b] : b \in Cooling(t, n)} :
        \A b \in Cooling(t, n) : d <= t.dl[b]

Retained(t) == {r \in RtIds : t.rts[r].used}

BoundPairs(t) == {<<CodeAt(b), HeapAt(b)>> : b \in BoundBlocks(t)}

\* C21 as stated: at any time the runtime records of a tree are exactly the
\* records with a positive reference count.
C21_RetainedIffCounted ==
    \A t \in {orig, temp} :
        \A r \in RtIds : t.rts[r].used <=> t.rts[r].rc > 0

\* C21, amended: when Background::finalize returns, the runtime records of the tree
\* are exactly the records with a positive reference count, the record of
\* the finalized block is one of them, and there are as many records as
\* pairs of code and heap pages among the blocks bound to a record: one
\* record if all the blocks share one pair.
C21_DrainKeepsUsedRuntimes ==
    [][(sFin' # sFin /\ wpc' = "start_dl") =>
          /\ \A r \in RtIds : WTree'.rts[r].used <=> WTree'.rts[r].rc > 0
          /\ has_output(WTree') =>
                WTree'.rt[finalized_block_hash(WTree')] \in Retained(WTree')
          /\ Cardinality(Retained(WTree')) = Cardinality(BoundPairs(WTree'))]_vars

\* After a finalization that pruned every block of the first runtime: the
\* record of that runtime is gone and the one record left is the record of
\* the finalized block.
C21_Witness ==
    /\ ~onTemp
    /\ wpc = "start_dl"
    /\ finalized_block_hash(orig) # 0
    /\ \E e \in SeqRange(evlog) : e.ev.type = "Finalized"
    /\ ~orig.rts[1].used
    /\ Retained(orig) = {orig.rt[finalized_block_hash(orig)]}

\* C22: every finalized block sent to a subscriber of the finalized block is
\* a strict descendant of the finalized block the subscriber was given
\* before, hence of a strictly greater block number.
C22_FinalizedStrictlyMonotonic ==
    [][\A i \in SubIds :
          (/\ "fin" \in fired'
           /\ i \in SeqRange(subList["fin"])
           /\ subSt["fin"][i] = "open") =>
             /\ Height(subLast'["fin"][i]) > Height(subLast["fin"][i])
             /\ IsAncOrEq(subLast["fin"][i], subLast'["fin"][i])]_vars

\* C23: once the call proof query has returned, start() fails at once only
\* on an invalid runtime, never because the query failed; the result of the
\* query is kept through the fetch of a pruned block; and on a call lock
\* whose call proof query failed every storage_entry and every
\* storage_prefix_keys_ordered returns the CallProof error.
C23_ProofErrorStoredNotReturned ==
    /\ [][(cpc = "proof" /\ cpc' = "idle") =>
             StartOutcome(orig, cBlock) \in {"InvalidRuntime", "panic"}]_vars
    /\ [][(cpc = "start_net" /\ cpc' = "call") => cProof' = cProof]_vars
    /\ [][(cpc = "call" /\ ~cProof /\ kvRes' # kvRes) =>
             (~kvRes'.ok /\ kvRes'.err = "CallProof")]_vars

\* The caller holds a call lock returned by start() although the call proof
\* query failed, on a block of the tree, and a storage call on it returned
\* the CallProof error.
C23_Witness ==
    /\ cpc = "call"
    /\ ~cProof
    /\ cGuarded
    /\ kvRes.called
    /\ kvRes.err = "CallProof"

InTreeKinds == {"best", "fin", "hash"}

\* C24: when start() on an in-tree handle finds, the call proof query over,
\* that the tree has no runtime for the block any more, it goes to the
\* network without touching the tree; the call lock it then returns does not
\* reference the tree; and the unlock and the drop of a call lock that does
\* not reference the tree leave the tree as it is and do not panic.
C24_PrunedBlockCallLeavesTree ==
    /\ [][(/\ cpc = "proof" /\ cpc' # "proof"
           /\ cKind \in InTreeKinds
           /\ ~HasBlockRuntime(orig, cBlock)) =>
             (cpc' = "start_net" /\ orig' = orig /\ panicked' = "no")]_vars
    /\ [][(cpc = "start_net" /\ cpc' = "call") =>
             (~cGuarded' /\ orig' = orig)]_vars
    /\ [][(cpc \in {"call", "unlocked"} /\ cpc' # cpc /\ ~cGuarded) =>
             (orig' = orig /\ panicked' = "no")]_vars

\* The call lock of an in-tree handle whose block was pruned during the call
\* proof query has been unlocked.
C24_Witness ==
    /\ cpc = "unlocked"
    /\ cKind \in InTreeKinds
    /\ ~cGuarded
    /\ ~HasBlockRuntime(orig, cBlock)
    /\ panicked = "no"

\* C25: runtime_lock(hash) returns an in-tree handle at once if the tree has
\* a runtime for the hash and goes to the network otherwise; the fetch ends
\* with an out-of-tree handle, only for a block whose virtual machine
\* builds, or with None, and leaves the tree as it is; the call lock of an
\* out-of-tree handle never references the tree, and its unlock and its drop
\* leave the tree as it is and do not panic.
C25_RuntimeLockInTreeOrFetched ==
    /\ [][(cpc = "idle" /\ cpc' \in {"lock", "lock_net"}
              /\ cKind' \in {"hash", "oot"}) =>
             IF HasBlockRuntime(orig, cBlock')
             THEN cpc' = "lock" /\ cKind' = "hash"
             ELSE cpc' = "lock_net" /\ cKind' = "oot"]_vars
    /\ [][(cpc = "lock_net" /\ cpc' # "lock_net") =>
             /\ orig' = orig
             /\ \/ /\ cpc' = "lock" /\ cKind' = "oot" /\ cBlock' = cBlock
                   /\ from_params(CodeAt(cBlock), HeapAt(cBlock))
                         \in {"ok", "CoreVersion"}
                \/ cpc' = "idle" /\ cKind' = "none"]_vars
    /\ [](cKind = "oot" => ~cGuarded)
    /\ [][(cKind = "oot" /\ cpc \in {"call", "unlocked"} /\ cpc' # cpc) =>
             (orig' = orig /\ panicked' = "no")]_vars

\* The call lock of an out-of-tree handle, of a block the tree does not
\* hold, has been unlocked.
C25_Witness ==
    /\ cpc = "unlocked"
    /\ cKind = "oot"
    /\ cBlock \notin TreeBlocks(orig)
    /\ panicked = "no"

\* C26: when the worker subscribes again it has no download in flight, no
\* armed wake-up and a tree without any download started; and every download
\* in flight is one that the tree the worker manipulates is waiting for, or
\* one of a block that this tree has pruned, so that no download of an
\* earlier subscription ever completes or fails on the tree of a later one.
C26_DownloadsOfThisSubscriptionOnly ==
    /\ [][(wpc = "subscribe" /\ wpc' # "subscribe") =>
             /\ downloads' = {}
             /\ wake' = NoWhen
             /\ Downloading(WTree') = {}]_vars
    /\ [](wpc # "subscribe" =>
             \A id \in downloads :
                WTree.st[id] \in {"downloading", "absent"})

\* The worker has subscribed again after a hand-over: it has no download in
\* flight, while the tree of the service still waits for the download that
\* was abandoned.
C26_Witness ==
    /\ nResub > 0
    /\ onTemp
    /\ wpc = "start_dl"
    /\ downloads = {}
    /\ Downloading(orig) # {}

(***************************************************************************)
(* Guarded::notify_subscribers on any three lists of senders.              *)
(***************************************************************************)
fanRest == <<nonSubVars, subVars, evlog, fired, kvVars, rw, rwBufs, rwData,
             rwOp, rwWake, rwSeen, jsCall, jsRes, fpBuilt>>

\* A sender is pushed on a list (subscribe_best, subscribe_finalized,
\* subscribe_runtime_version).
FanSubscribe(k, i) ==
    /\ fanSt[i] = "new"
    /\ fanList' = [fanList EXCEPT ![k] = Append(@, i)]
    /\ fanSt' = [fanSt EXCEPT ![i] = "open"]
    /\ fanFlags' = NoFlags
    /\ UNCHANGED fanRest

\* A subscriber drops its receiver.
FanDrop(i) ==
    /\ fanSt[i] = "open"
    /\ fanSt' = [fanSt EXCEPT ![i] = "dropped"]
    /\ fanFlags' = NoFlags
    /\ UNCHANGED <<fanList, fanRest>>

\* notify_subscribers(best_block_updated, best_block_runtime_changed,
\* finalized_block_updated).
FanNotify(flags) ==
    /\ flags # NoFlags
    /\ fanList' = notify_subscribers(
                      fanList, flags,
                      [k \in Lossy |-> {i \in Senders : fanSt[i] = "open"}])
    /\ fanFlags' = flags
    /\ UNCHANGED <<fanSt, fanRest>>

NextFan ==
    \/ \E k \in Lossy, i \in Senders : FanSubscribe(k, i)
    \/ \E i \in Senders : FanDrop(i)
    \/ \E flags \in [Lossy -> BOOLEAN] : FanNotify(flags)

SpecFan == Init /\ [][NextFan]_vars

\* The number of places of the list that hold sender i.
Occurrences(list, i) == Cardinality({n \in 1 .. Len(list) : list[n] = i})

\* C27: after a notify_subscribers call, each list that was notified holds
\* exactly once every sender it held whose receiver is alive and no other
\* sender, and a list that was not notified is as it was.
C27_ListsHoldTheAliveSendersOnce ==
    [][\A k \in Lossy :
         IF fanFlags'[k]
         THEN \A i \in Senders :
                Occurrences(fanList'[k], i) =
                    IF i \in SeqRange(fanList[k]) /\ fanSt[i] = "open"
                    THEN 1 ELSE 0
         ELSE fanFlags' # NoFlags => fanList'[k] = fanList[k]]_vars

\* A notification has just removed a dropped sender from a list and kept the
\* two other senders of it.
C27_Witness ==
    \E k \in Lossy :
        /\ fanFlags[k]
        /\ Len(fanList[k]) = 2
        /\ \E i \in Senders :
             /\ fanSt[i] = "dropped"
             /\ \A j \in SeqRange(fanList[k]) : j # i /\ fanSt[j] = "open"
             /\ \A kk \in Lossy : i \notin SeqRange(fanList[kk])

(***************************************************************************)
(* libp2p::read_write::ReadWrite.                                          *)
(***************************************************************************)
Min(a, b) == IF a < b THEN a ELSE b

\* usize::saturating_sub.
SaturatingSub(a, b) == IF a > b THEN a - b ELSE 0

SliceLen(v) == v.hi - v.lo

\* The places of the arrays a slice covers, in order.
SlicePlaces(v) == [j \in 1 .. SliceLen(v) |-> <<v.arr, v.lo + j>>]

\* &buf[num..] keeps the bytes after the first num, &buf[..num] would keep
\* the first num.
SliceTo(buf, num) == SubSeq(buf, 1, num)

\* &buf[..len - num]: the last num bytes go.
SliceFromEnd(buf, num) == SubSeq(buf, 1, Len(buf) - num)

SliceFrom(buf, num) == SubSeq(buf, num + 1, Len(buf))

\* The result of a call: the ReadWrite, the arrays, and whether it panicked.
Done(r, bufs) == [rw |-> r, bufs |-> bufs, panicked |-> FALSE]

Panic(r, bufs) == [rw |-> r, bufs |-> bufs, panicked |-> TRUE]

incoming_buffer_available(r) ==
    IF r.incoming_buffer.some THEN Len(r.incoming_buffer.buf) ELSE 0

outgoing_buffer_available(r) ==
    IF r.outgoing_buffer.some
    THEN SliceLen(r.outgoing_buffer.b0) + SliceLen(r.outgoing_buffer.b1)
    ELSE 0

\* self.read_bytes += num counts the bytes; CountCalls would count the calls.
CountCalls(total, num) == total + 1

CountBytes(total, num) == total + num

advance_read(r, bufs, num) ==
    IF r.incoming_buffer.some
    THEN LET counted == [r EXCEPT !.read_bytes = CountBytes(@, num)] IN
         IF num > Len(r.incoming_buffer.buf) THEN Panic(counted, bufs)
         ELSE Done([counted EXCEPT !.incoming_buffer.buf = SliceFrom(@, num)],
                   bufs)
    ELSE IF num = 0 THEN Done(r, bufs) ELSE Panic(r, bufs)

\* mem::swap of the two slices.
KeepSlices(b0, b1) == <<b0, b1>>

SwapSlices(b0, b1) == <<b1, b0>>

advance_write(r, bufs, num) ==
    IF r.outgoing_buffer.some
    THEN LET counted == [r EXCEPT !.written_bytes = CountBytes(@, num)]
             b0 == r.outgoing_buffer.b0
             b1 == r.outgoing_buffer.b1
             out_buf_0_len == SliceLen(b0)
             n0 == Min(num, out_buf_0_len)
             n1 == SaturatingSub(num, out_buf_0_len)
         IN IF n1 > SliceLen(b1) THEN Panic(counted, bufs)
            ELSE LET a0 == [b0 EXCEPT !.lo = @ + n0]
                     a1 == [b1 EXCEPT !.lo = @ + n1]
                     sw == IF SliceLen(a0) = 0 THEN SwapSlices(a0, a1)
                           ELSE KeepSlices(a0, a1)
                 IN Done([counted EXCEPT !.outgoing_buffer.b0 = sw[1],
                                         !.outgoing_buffer.b1 = sw[2]], bufs)
    ELSE IF num = 0 THEN Done(r, bufs) ELSE Panic(r, bufs)

\* slice[..Len(data)].copy_from_slice(data) on the arrays.
CopyToSlice(bufs, v, data) ==
    [a \in 1 .. 2 |-> [j \in 1 .. Len(bufs[a]) |->
        IF a = v.arr /\ j > v.lo /\ j <= v.lo + Len(data)
        THEN data[j - v.lo] ELSE bufs[a][j]]]

write_out(r, bufs, data) ==
    IF ~r.outgoing_buffer.some
    THEN IF data = <<>> THEN Done(r, bufs) ELSE Panic(r, bufs)
    ELSE IF Len(data) > outgoing_buffer_available(r) THEN Panic(r, bufs)
    ELSE LET to_copy_buf1 == Min(SliceLen(r.outgoing_buffer.b0), Len(data))
             to_copy_buf2 == Len(data) - to_copy_buf1
             c1 == CopyToSlice(bufs, r.outgoing_buffer.b0,
                               SliceTo(data, to_copy_buf1))
             c2 == CopyToSlice(c1, r.outgoing_buffer.b1,
                               SliceTo(SliceFrom(data, to_copy_buf1),
                                       to_copy_buf2))
         IN advance_write(r, c2, Len(data))

\* VecDeque::pop_front on the two slices of the queue: when the first slice
\* runs out, the second one is the first.  pop_back takes the last byte.
pop_back(d) ==
    IF d[2] # <<>> THEN <<d[1], SliceTo(d[2], Len(d[2]) - 1)>>
    ELSE <<SliceTo(d[1], Len(d[1]) - 1), <<>>>>

pop_front(d) ==
    IF Len(d[1]) > 1 THEN <<Tail(d[1]), d[2]>> ELSE <<d[2], <<>>>>

RECURSIVE PopFronts(_, _)
PopFronts(d, n) == IF n = 0 THEN d ELSE PopFronts(pop_front(d), n - 1)

\* The result of write_from_vec_deque, with the queue afterwards.
write_from_vec_deque(r, bufs, d) ==
    LET slice1 == d[1]
        slice2 == d[2]
        outgoing_available == outgoing_buffer_available(r)
        to_copy1 == Min(Len(slice1), outgoing_available)
        to_copy2 == IF to_copy1 = Len(slice1)
                    THEN Min(Len(slice2), outgoing_available - to_copy1)
                    ELSE 0
        w1 == write_out(r, bufs, SliceTo(slice1, to_copy1))
        w2 == IF w1.panicked THEN w1
              ELSE write_out(w1.rw, w1.bufs, SliceTo(slice2, to_copy2))
    IN [rw |-> w2.rw, bufs |-> w2.bufs, panicked |-> w2.panicked,
        data |-> IF w2.panicked THEN d ELSE PopFronts(d, to_copy1 + to_copy2)]

DataBytes == 1 .. MaxByte

SeqsUpTo(S, n) == UNION {[1 .. m -> S] : m \in 0 .. n}

\* A ReadWrite over any incoming bytes and any two outgoing arrays, either
\* side possibly closed, its counters at some common start, and any queue of
\* bytes.
InitRW ==
    /\ ServiceInit
    /\ kvTrie = {} /\ kvProof = "full" /\ kvPrefix = <<>> /\ kvRes = NoRes
    /\ FanIdle /\ WakeIdle /\ JsIdle /\ BuildIdle
    /\ rwBufs \in {<<[j \in 1 .. l1 |-> 0], [j \in 1 .. l2 |-> 0]>> :
                     l1 \in 0 .. MaxBufLen, l2 \in 0 .. MaxBufLen}
    /\ rw \in {[incoming_buffer |-> inc,
                outgoing_buffer |-> out,
                read_bytes |-> start, written_bytes |-> start] :
                 inc \in {[some |-> FALSE, buf |-> <<>>]}
                         \cup {[some |-> TRUE, buf |-> b] :
                                 b \in SeqsUpTo(DataBytes, MaxBufLen)},
                 out \in {[some |-> FALSE, b0 |-> NoSlice, b1 |-> NoSlice],
                          [some |-> TRUE,
                           b0 |-> [arr |-> 1, lo |-> 0,
                                   hi |-> Len(rwBufs[1])],
                           b1 |-> [arr |-> 2, lo |-> 0,
                                   hi |-> Len(rwBufs[2])]]},
                 start \in 0 .. MaxStart}
    /\ rwData \in UNION {{<<SliceTo(q, cut), SliceFrom(q, cut)>> :
                             cut \in Min(1, Len(q)) .. Len(q)} :
                           q \in SeqsUpTo(DataBytes, MaxData)}
    /\ rwOp = NoOp

rwRest == <<serviceVars, kvVars, fanList, fanSt, fanFlags, rwWake, rwSeen,
            jsCall, jsRes, fpBuilt>>

\* The calls are made with a count of at most one more than what is
\* available: every larger count fails the same check.
RW_AdvanceRead(num) ==
    /\ ~rwOp.panicked
    /\ num <= incoming_buffer_available(rw) + 1
    /\ LET res == advance_read(rw, rwBufs, num) IN
         /\ rw' = res.rw
         /\ rwOp' = [name |-> "advance_read", num |-> num,
                     panicked |-> res.panicked, ret |-> <<>>]
    /\ UNCHANGED <<rwBufs, rwData, rwRest>>

RW_AdvanceWrite(num) ==
    /\ ~rwOp.panicked
    /\ num <= outgoing_buffer_available(rw) + 1
    /\ LET res == advance_write(rw, rwBufs, num) IN
         /\ rw' = res.rw
         /\ rwOp' = [name |-> "advance_write", num |-> num,
                     panicked |-> res.panicked, ret |-> <<>>]
    /\ UNCHANGED <<rwBufs, rwData, rwRest>>

RW_WriteFromVecDeque ==
    /\ ~rwOp.panicked
    /\ LET res == write_from_vec_deque(rw, rwBufs, rwData) IN
         /\ rw' = res.rw
         /\ rwBufs' = res.bufs
         /\ rwData' = res.data
         /\ rwOp' = [name |-> "write_from_vec_deque", num |-> 0,
                     panicked |-> res.panicked, ret |-> <<>>]
    /\ UNCHANGED rwRest

\* read_bytes::<N>(): the result with the array returned.
read_bytes(r, bufs, n) ==
    IF r.incoming_buffer.some
    THEN IF Len(r.incoming_buffer.buf) >= n
         THEN [res |-> advance_read(r, bufs, n),
               out |-> SliceTo(r.incoming_buffer.buf, n)]
         ELSE [res |-> Panic(r, bufs), out |-> <<>>]
    ELSE [res |-> IF n = 0 THEN Done(r, bufs) ELSE Panic(r, bufs),
          out |-> <<>>]

discard_all_incoming(r, bufs) ==
    advance_read(r, bufs, incoming_buffer_available(r))

close_write(r) ==
    [r EXCEPT !.outgoing_buffer =
                  [some |-> FALSE, b0 |-> NoSlice, b1 |-> NoSlice]]

\* IncomingBytes::next: the byte taken is buf[0]; LastByte would take the
\* last one.
LastByte(buf) == buf[Len(buf)]

FirstByte(buf) == buf[1]

\* The ReadWrite afterwards and the item returned (<<>> for None).
IncomingBytes_next(r) ==
    IF r.incoming_buffer.some /\ r.incoming_buffer.buf # <<>>
    THEN [rw |-> [r EXCEPT !.incoming_buffer.buf = SliceFrom(@, 1),
                           !.read_bytes = @ + 1],
          item |-> <<FirstByte(r.incoming_buffer.buf)>>]
    ELSE [rw |-> r, item |-> <<>>]

\* ExactSizeIterator::len, from size_hint.
IncomingBytes_len(r) ==
    IF r.incoming_buffer.some THEN Len(r.incoming_buffer.buf) ELSE 0

RW_ReadBytes(n) ==
    /\ ~rwOp.panicked
    /\ n <= incoming_buffer_available(rw) + 1
    /\ LET got == read_bytes(rw, rwBufs, n) IN
         /\ rw' = got.res.rw
         /\ rwOp' = [name |-> "read_bytes", num |-> n,
                     panicked |-> got.res.panicked, ret |-> got.out]
    /\ UNCHANGED <<rwBufs, rwData, rwRest>>

RW_DiscardAllIncoming ==
    /\ ~rwOp.panicked
    /\ LET res == discard_all_incoming(rw, rwBufs) IN
         /\ rw' = res.rw
         /\ rwOp' = [name |-> "discard_all_incoming", num |-> 0,
                     panicked |-> res.panicked, ret |-> <<>>]
    /\ UNCHANGED <<rwBufs, rwData, rwRest>>

\* One next() on the iterator of incoming_bytes_iter().
RW_IterNext ==
    /\ ~rwOp.panicked
    /\ LET got == IncomingBytes_next(rw) IN
         /\ rw' = got.rw
         /\ rwOp' = [name |-> "next", num |-> 0, panicked |-> FALSE,
                     ret |-> got.item]
    /\ UNCHANGED <<rwBufs, rwData, rwRest>>

\* write_out(&data[..k]) of the first k bytes of the queue, which stay in it.
RW_WriteOut(k) ==
    /\ ~rwOp.panicked
    /\ k <= Len(rwData[1] \o rwData[2])
    /\ LET res == write_out(rw, rwBufs, SliceTo(rwData[1] \o rwData[2], k)) IN
         /\ rw' = res.rw
         /\ rwBufs' = res.bufs
         /\ rwOp' = [name |-> "write_out", num |-> k,
                     panicked |-> res.panicked, ret |-> <<>>]
    /\ UNCHANGED <<rwData, rwRest>>

RW_CloseWrite ==
    /\ ~rwOp.panicked
    /\ rw' = close_write(rw)
    /\ rwOp' = [name |-> "close_write", num |-> 0, panicked |-> FALSE,
                ret |-> <<>>]
    /\ UNCHANGED <<rwBufs, rwData, rwRest>>

NextRW ==
    \/ \E num \in 0 .. MaxBufLen + 1 : RW_AdvanceRead(num)
    \/ \E num \in 0 .. MaxBufLen + MaxBufLen + 1 : RW_AdvanceWrite(num)
    \/ RW_WriteFromVecDeque

SpecRW == InitRW /\ [][NextRW]_vars

\* Every call that reads, writes or closes.
NextIo ==
    \/ \E num \in 0 .. MaxBufLen + 1 : RW_AdvanceRead(num)
    \/ \E n \in 0 .. MaxBufLen + 1 : RW_ReadBytes(n)
    \/ RW_DiscardAllIncoming
    \/ RW_IterNext
    \/ \E num \in 0 .. MaxBufLen + MaxBufLen + 1 : RW_AdvanceWrite(num)
    \/ \E k \in 0 .. MaxData : RW_WriteOut(k)
    \/ RW_WriteFromVecDeque
    \/ RW_CloseWrite

\* A ReadWrite of which one side is closed from the start, as a caller that
\* only reads or only writes builds it.
InitIo ==
    /\ InitRW
    /\ \/ ~rw.incoming_buffer.some
       \/ /\ ~rw.outgoing_buffer.some
          /\ rwBufs = <<<<>>, <<>>>>
          /\ rwData = <<<<>>, <<>>>>

SpecIo == InitIo /\ [][NextIo]_vars

\* The places of the arrays the two outgoing slices cover: first buffer, then
\* second.
OutPlaces(r) ==
    SlicePlaces(r.outgoing_buffer.b0) \o SlicePlaces(r.outgoing_buffer.b1)

\* C28: advance_read(n) with n at most incoming_buffer_available() does not
\* panic, leaves in the incoming buffer the bytes that followed its first n
\* and adds n to read_bytes, touching nothing else; with n above the
\* available bytes it panics, so that a closed read side accepts n = 0 only.
C28_AdvanceReadDropsFirstBytes ==
    [][rwOp'.name = "advance_read" =>
         LET n == rwOp'.num
             old == rw.incoming_buffer.buf
             new == rw'.incoming_buffer.buf
         IN IF n <= incoming_buffer_available(rw)
            THEN /\ ~rwOp'.panicked
                 /\ rw'.read_bytes = rw.read_bytes + n
                 /\ rw'.incoming_buffer.some = rw.incoming_buffer.some
                 /\ Len(new) = Len(old) - n
                 /\ \A j \in 1 .. Len(new) : new[j] = old[j + n]
                 /\ rw'.outgoing_buffer = rw.outgoing_buffer
                 /\ rw'.written_bytes = rw.written_bytes
            ELSE rwOp'.panicked]_vars

\* advance_read(1) has counted one byte and left the byte 1 in the incoming
\* buffer.
C28_Witness ==
    /\ rwOp.name = "advance_read"
    /\ rwOp.num = 1
    /\ ~rwOp.panicked
    /\ rw.incoming_buffer.buf = <<1>>
    /\ rw.read_bytes = MaxStart + 1

\* C29: advance_write(n) with n at most outgoing_buffer_available() does not
\* panic, adds n to written_bytes, and leaves in the two outgoing buffers,
\* first then second, what followed the first n bytes of them; afterwards the
\* first buffer is empty only if the second is.
C29_AdvanceWriteDropsFirstBytes ==
    [][(rwOp'.name = "advance_write"
           /\ rwOp'.num <= outgoing_buffer_available(rw)) =>
         LET n == rwOp'.num IN
            /\ ~rwOp'.panicked
            /\ rw'.written_bytes = rw.written_bytes + n
            /\ rw'.outgoing_buffer.some = rw.outgoing_buffer.some
            /\ OutPlaces(rw') = SliceFrom(OutPlaces(rw), n)
            /\ SliceLen(rw'.outgoing_buffer.b0) = 0 =>
                   SliceLen(rw'.outgoing_buffer.b1) = 0
            /\ rw'.incoming_buffer = rw.incoming_buffer
            /\ rw'.read_bytes = rw.read_bytes]_vars

\* advance_write has used up the first buffer and part of the second, which
\* is the first buffer now.
C29_Witness ==
    /\ rwOp.name = "advance_write"
    /\ ~rwOp.panicked
    /\ rwOp.num > Len(rwBufs[1])
    /\ Len(rwBufs[1]) > 0
    /\ rw.outgoing_buffer.b0.arr = 2
    /\ SliceLen(rw.outgoing_buffer.b0) > 0
    /\ rw.outgoing_buffer.b0.lo > 0

\* The bytes of the queue, front first.
QueueBytes(d) == d[1] \o d[2]

\* C30: write_from_vec_deque(data) does not panic and, with k the smaller of
\* the length of data and outgoing_buffer_available(): the first k places of
\* the outgoing buffers, first buffer then second, hold the first k bytes of
\* data in order and no other place of the arrays has changed; the buffers
\* are advanced by k; written_bytes has grown by k; data holds the bytes that
\* followed its first k, in order.
C30_WriteFromVecDequeMovesFirstBytes ==
    [][rwOp'.name = "write_from_vec_deque" =>
         LET data == QueueBytes(rwData)
             places == OutPlaces(rw)
             k == Min(Len(data), outgoing_buffer_available(rw))
         IN /\ ~rwOp'.panicked
            /\ rw'.written_bytes = rw.written_bytes + k
            /\ \A j \in 1 .. k :
                 rwBufs'[places[j][1]][places[j][2]] = data[j]
            /\ \A a \in 1 .. 2 :
                 /\ Len(rwBufs'[a]) = Len(rwBufs[a])
                 /\ \A i \in 1 .. Len(rwBufs[a]) :
                      (\A j \in 1 .. k : places[j] # <<a, i>>) =>
                          rwBufs'[a][i] = rwBufs[a][i]
            /\ OutPlaces(rw') = SubSeq(places, k + 1, Len(places))
            /\ QueueBytes(rwData') = SubSeq(data, k + 1, Len(data))
            /\ rw'.incoming_buffer = rw.incoming_buffer
            /\ rw'.read_bytes = rw.read_bytes]_vars

\* write_from_vec_deque has filled both outgoing arrays with the first two
\* bytes of the queue and left the third in the queue.
C30_Witness ==
    /\ rwOp.name = "write_from_vec_deque"
    /\ ~rwOp.panicked
    /\ rwBufs = <<<<1>>, <<MaxByte>>>>
    /\ QueueBytes(rwData) = <<MaxByte>>
    /\ rw.written_bytes = MaxStart + 2
    /\ outgoing_buffer_available(rw) = 0

\* C31: a next() of the iterator of incoming_bytes_iter that finds a byte
\* returns the first byte of the incoming buffer, leaves the bytes that
\* followed it and adds 1 to read_bytes; on an empty buffer or a closed read
\* side it returns None and changes nothing; len() is the number of bytes
\* available, before and after.
C31_IterYieldsBytesInOrder ==
    [][rwOp'.name = "next" =>
         LET old == rw.incoming_buffer.buf
             new == rw'.incoming_buffer.buf
         IN /\ IncomingBytes_len(rw) = incoming_buffer_available(rw)
            /\ IncomingBytes_len(rw') = incoming_buffer_available(rw')
            /\ IF rw.incoming_buffer.some /\ Len(old) > 0
               THEN /\ rwOp'.ret = <<old[1]>>
                    /\ Len(new) = Len(old) - 1
                    /\ \A j \in 1 .. Len(new) : new[j] = old[j + 1]
                    /\ rw'.read_bytes = rw.read_bytes + 1
                    /\ IncomingBytes_len(rw') = IncomingBytes_len(rw) - 1
                    /\ rw'.incoming_buffer.some
                    /\ rw'.outgoing_buffer = rw.outgoing_buffer
                    /\ rw'.written_bytes = rw.written_bytes
               ELSE /\ rwOp'.ret = <<>>
                    /\ rw' = rw]_vars

\* next() has returned the byte 1 and left the byte after it in the buffer.
C31_Witness ==
    /\ rwOp.name = "next"
    /\ rwOp.ret = <<1>>
    /\ rw.incoming_buffer.buf = <<MaxByte>>
    /\ rw.read_bytes = MaxStart + 1

(***************************************************************************)
(* ReadWrite::wake_up_after.                                               *)
(***************************************************************************)
Instants == 0 .. MaxInstant

\* The arm `Some(ref mut t) if *t < *after => {}` keeps the earlier instant;
\* with the comparison turned it would keep the later.
KeepsLater(t, after) == t > after

KeepsCurrent(t, after) == t < after

\* wake_up_after(after): the field afterwards.
wake_up_after(field, after) ==
    IF field.some /\ KeepsCurrent(field.t, after) THEN field
    ELSE [some |-> TRUE, t |-> after]

\* A ReadWrite with any wake_up_after.
InitWake ==
    /\ ServiceInit
    /\ kvTrie = {} /\ kvProof = "full" /\ kvPrefix = <<>> /\ kvRes = NoRes
    /\ FanIdle /\ RWIdle /\ JsIdle /\ BuildIdle
    /\ rwWake \in {NoInstant} \cup {[some |-> TRUE, t |-> t] : t \in Instants}
    /\ rwSeen = [init |-> rwWake, passed |-> {}]

RW_WakeUpAfter(after) ==
    /\ rwWake' = wake_up_after(rwWake, after)
    /\ rwSeen' = [rwSeen EXCEPT !.passed = @ \cup {after}]
    /\ rwOp' = [name |-> "wake_up_after", num |-> after, panicked |-> FALSE,
                ret |-> <<>>]
    /\ UNCHANGED <<serviceVars, kvVars, fanList, fanSt, fanFlags, rw, rwBufs,
                   rwData, jsCall, jsRes, fpBuilt>>

NextWake == \E after \in Instants : RW_WakeUpAfter(after)

SpecWake == InitWake /\ [][NextWake]_vars

\* The instants the field has been given: its first value and those passed.
Given == rwSeen.passed \cup (IF rwSeen.init.some THEN {rwSeen.init.t} ELSE {})

\* C32: wake_up_after is None as long as it started as None and no call was
\* made, and otherwise holds the earliest of its first value and of the
\* instants passed; a call with an instant later than the current value
\* leaves the field as it is.
C32_WakeUpAfterIsTheMinimum ==
    /\ [](IF Given = {} THEN ~rwWake.some
          ELSE /\ rwWake.some
               /\ rwWake.t \in Given
               /\ \A t \in Given : rwWake.t <= t)
    /\ [][(rwOp'.name = "wake_up_after" /\ rwWake.some
              /\ rwOp'.num > rwWake.t) => rwWake' = rwWake]_vars

\* A later instant was passed after an earlier one, on a field that started
\* as None, and the earlier one is kept.
C32_Witness ==
    /\ ~rwSeen.init.some
    /\ rwOp.name = "wake_up_after"
    /\ rwOp.num = MaxInstant
    /\ rwSeen.passed = {1, MaxInstant}
    /\ rwWake = [some |-> TRUE, t |-> 1]

(***************************************************************************)
(* json_rpc::methods::parse_json_call.  A message is what parse_call makes *)
(* of it: whether it parses, its id ("none" when it has none), its method  *)
(* name and its parameters.  The parameters are a JSON object, a JSON      *)
(* array or something else; an object or array is the sequence of its      *)
(* values, each one "ok" (of the type of the parameter), "null", "bad" or, *)
(* in an object, "missing".  Values of an object beyond the parameters of  *)
(* the method stand for keys the method does not know.                     *)
(***************************************************************************)
NoId == "none"

RequestIds == {"id1", "id2"}

\* Some entries of define_methods!: the name, the aliases, and for each
\* parameter whether its type is an Option.
Methods ==
    {[name |-> "system_name", aliases |-> {}, params |-> <<>>],
     [name |-> "chain_getBlockHash", aliases |-> {"chain_getHead"},
      params |-> <<TRUE>>],
     [name |-> "state_getStorage", aliases |-> {"state_getStorageAt"},
      params |-> <<FALSE, TRUE>>]}

MethodNames == {"system_name", "chain_getBlockHash", "chain_getHead",
                "state_getStorage", "state_getStorageAt", "foo"}

\* serde_json::from_str of one value into the type of a parameter.
Deserializes(optional, value) ==
    value = "ok" \/ (optional /\ value \in {"null", "missing"})

\* The value of parameter n in the parameters, "missing" or "null" when the
\* parameters are shorter.
ValueAt(vals, n, absent) == IF n <= Len(vals) THEN vals[n] ELSE absent

\* serde_json::from_str::<Params>: from an object, every field must
\* deserialize, a missing one as None, and unknown keys are skipped; from an
\* array, the elements are the fields, neither fewer nor more.
ParamsByName(m, params) ==
    \/ /\ params.form = "object"
       /\ \A n \in 1 .. Len(m.params) :
            Deserializes(m.params[n], ValueAt(params.vals, n, "missing"))
    \/ /\ params.form = "array"
       /\ Len(params.vals) = Len(m.params)
       /\ \A n \in 1 .. Len(m.params) :
            Deserializes(m.params[n], params.vals[n])

JsOk(name) == [ok |-> TRUE, name |-> name, kind |-> "none", index |-> 0]

JsErr(kind, index) ==
    [ok |-> FALSE, name |-> "none", kind |-> kind, index |-> index]

\* The parameters passed by array: the first one that does not deserialize
\* is reported with its 0-based index, then a surplus of parameters.
ParamsByArray(m, vals) ==
    LET failing == {n \in 1 .. Len(m.params) :
                      ~Deserializes(m.params[n], ValueAt(vals, n, "null"))}
    IN IF failing # {}
       THEN JsErr("InvalidParameter",
                  (CHOOSE n \in failing : \A o \in failing : n <= o) - 1)
       ELSE IF Len(vals) > Len(m.params)
       THEN JsErr("TooManyParameters", Len(m.params))
       ELSE JsOk(m.name)

\* MethodCall::from_defs.
from_defs(name, params) ==
    LET found == {m \in Methods : name = m.name \/ name \in m.aliases} IN
    IF found = {} THEN JsErr("UnknownMethod", 0)
    ELSE LET m == CHOOSE m \in found : TRUE IN
         IF ParamsByName(m, params) THEN JsOk(m.name)
         ELSE IF params.form = "array" THEN ParamsByArray(m, params.vals)
         ELSE JsErr("InvalidParametersFormat", 0)

\* `None => return Err(ParseError::UnknownNotification(..))`.
NeverNotification(id_json) == FALSE

IsNotification(id_json) == id_json = NoId

JsResult(variant, id, method, error) ==
    [variant |-> variant, id |-> id, method |-> method, error |-> error]

parse_json_call(message) ==
    IF ~message.parses
    THEN JsResult("JsonRpcParse", NoId, "none", JsErr("none", 0))
    ELSE IF IsNotification(message.id)
    THEN JsResult("UnknownNotification", NoId, message.method,
                  JsErr("none", 0))
    ELSE LET call == from_defs(message.method, message.params) IN
         IF call.ok THEN JsResult("Ok", message.id, call.name, call)
         ELSE JsResult("Method", message.id, "none", call)

JsonParams ==
    {[form |-> "other", vals |-> <<>>]}
    \cup {[form |-> "object", vals |-> v] :
            v \in SeqsUpTo({"ok", "null", "bad", "missing"}, MaxArgs)}
    \cup {[form |-> "array", vals |-> v] :
            v \in SeqsUpTo({"ok", "null", "bad"}, MaxArgs)}

\* Any message.
InitJson ==
    /\ ServiceInit
    /\ kvTrie = {} /\ kvProof = "full" /\ kvPrefix = <<>> /\ kvRes = NoRes
    /\ FanIdle /\ RWIdle /\ WakeIdle /\ BuildIdle
    /\ jsCall \in {[parses |-> FALSE, id |-> NoId, method |-> "none",
                    params |-> [form |-> "other", vals |-> <<>>]]}
                  \cup {[parses |-> TRUE, id |-> id, method |-> name,
                         params |-> params] :
                          id \in {NoId} \cup RequestIds,
                          name \in MethodNames, params \in JsonParams}
    /\ jsRes = JsResult("none", NoId, "none", JsErr("none", 0))

ParseJsonCall ==
    /\ jsRes.variant = "none"
    /\ jsRes' = parse_json_call(jsCall)
    /\ UNCHANGED <<jsCall, serviceVars, kvVars, fanList, fanSt, fanFlags, rw,
                   rwBufs, rwData, rwOp, rwWake, rwSeen, fpBuilt>>

NextJson == ParseJsonCall

SpecJson == InitJson /\ [][NextJson]_vars

\* C33: for a message that parses, parse_json_call returns
\* UnknownNotification with the method name when the message has no id,
\* whatever the method and the parameters, and otherwise a MethodCall or
\* ParseError::Method with the id of the message; an unknown method gives
\* Method with UnknownMethod, and parameters that are neither an object nor
\* an array, or that hold a value of the wrong type for a method that is
\* known, give Method.
C33_NoMethodCallWithoutId ==
    (jsRes.variant # "none" /\ jsCall.parses) =>
        IF jsCall.id = NoId
        THEN /\ jsRes.variant = "UnknownNotification"
             /\ jsRes.method = jsCall.method
        ELSE /\ jsRes.variant \in {"Ok", "Method"}
             /\ jsRes.id = jsCall.id
             /\ jsCall.method \in {"foo"} =>
                    (jsRes.variant = "Method"
                        /\ jsRes.error.kind = "UnknownMethod")
             /\ (jsCall.params.form = "other"
                   \/ /\ jsCall.method \in {"state_getStorage",
                                            "state_getStorageAt"}
                      /\ ValueAt(jsCall.params.vals, 1, "missing") # "ok") =>
                    jsRes.variant = "Method"

\* A message without id whose method and parameters are valid was refused
\* as an unknown notification.
C33_Witness ==
    /\ jsCall.parses
    /\ jsCall.id = NoId
    /\ jsCall.method = "chain_getHead"
    /\ jsCall.params = [form |-> "array", vals |-> <<"ok">>]
    /\ jsRes.variant = "UnknownNotification"

(***************************************************************************)
(* C34.                                                                    *)
(***************************************************************************)
\* The successfully built records of a tree whose slot of the virtual
\* machine is empty.
EmptySlots(t) ==
    {r \in RtIds : t.rts[r].used /\ t.rts[r].res = "ok" /\ ~t.rts[r].vm}

\* C34: while the process runs, a successfully built runtime record has an
\* empty slot of the virtual machine only while a call lock that holds the
\* lock on `guarded` exists, and then it is the record that call lock took
\* the virtual machine from; hence, whenever the lock on `guarded` is free,
\* every slot is filled, in the tree of the service and in the tree of the
\* temporary instance, and start() never finds an empty slot.
C34_SlotEmptyOnlyUnderCallLock ==
    /\ panicked # "start"
    /\ panicked = "no" =>
          /\ EmptySlots(temp) = {}
          /\ mutex # "caller" => EmptySlots(orig) = {}
          /\ EmptySlots(orig) # {} =>
                /\ cpc = "call" /\ cGuarded /\ mutex = "caller"
                /\ EmptySlots(orig) = {cRt}

\* A call on a block of the tree holds the virtual machine of its record
\* while the worker, after the hand-over, runs on the tree of the service.
C34_Witness ==
    /\ cpc = "call" /\ cGuarded /\ mutex = "caller"
    /\ EmptySlots(orig) = {cRt}
    /\ ~onTemp
    /\ panicked = "no"

(***************************************************************************)
(* C35.                                                                    *)
(***************************************************************************)
\* C35: the tree of the original service is always Some and always has
\* output, so that every operation that locks `guarded` finds it so, also
\* while the worker runs on a temporary service after the stream of the
\* sync service has ended.
C35_OriginalTreeHasOutput ==
    /\ orig.some /\ has_output(orig)
    /\ mutex = "caller" => HasBlockRuntime(orig, cBlock)

\* A caller holds a lock of the original service while the worker, after a
\* stream closure, runs on a temporary service that has no output yet.
C35_Witness ==
    /\ cpc = "lock" /\ mutex = "caller"
    /\ nResub > 0 /\ onTemp /\ temp.some /\ ~has_output(temp)
    /\ orig.some /\ has_output(orig)

(***************************************************************************)
(* C36.                                                                    *)
(***************************************************************************)
\* A step of a subscriber, as opposed to a step of the worker.
SubscriberStep == \E i \in SubIds : Subscribe("best", i)

\* C36: from the subscription to the sync service until the hand-over, the
\* steps of the worker leave the tree of the original service (hence its
\* best and finalized blocks), its near-head flag and its subscription lists
\* unchanged and send nothing to its subscribers.
C36_WorkerOnTemporaryLeavesOriginal ==
    [][(onTemp' /\ ~SubscriberStep) =>
          /\ UNCHANGED <<orig, oNear, subList, subSt, subLast, allQ, allSeen>>
          /\ fired' = {}]_vars

\* The worker has finished a download on the temporary service, after a
\* stream closure, while the original service has a subscriber of the best
\* block.
C36_Witness ==
    /\ onTemp /\ nResub > 0
    /\ \E b \in Blocks0 : temp.st[b] = "done"
    /\ subList["best"] # <<>>
    /\ wpc = "select"

(***************************************************************************)
(* C37.                                                                    *)
(***************************************************************************)
\* The worker runs on the original service, whose best block at output is
\* the best block of the sync service, and no download is in flight.
Synced ==
    /\ ~onTemp
    /\ best_block_hash(orig) = sBest
    /\ downloads = {}

\* A needed block is in cooldown until after the last instant of the clock:
\* its timer never fires.
TimerNeverFires ==
    \E b \in Blocks0 :
        /\ Necessary(WTree, b)
        /\ WTree.st[b] = "failed" /\ WTree.dl[b] > MaxTime

\* C37: under the scheduling of the select loop, once the sync service has
\* sent its last notification (every behaviour has finitely many: a block is
\* announced once and the finalized block only advances) and the downloads
\* have stopped failing, the worker reaches, and stays in, a state where the
\* best block at output of the original service is the best block of the
\* sync service and no download is in flight, provided the timer of every
\* cooldown fires.
C37_EventuallySynced == <>[]Synced \/ <>[]TimerNeverFires

\* The worker is in sync on a block other than the genesis block, after a
\* failed download.
C37_Witness ==
    /\ Synced /\ sBest # 0 /\ nFail > 0
    /\ wpc = "select" /\ wake = NoWhen

(***************************************************************************)
(* C38: SuccessfulRuntime::from_params on any code and heap pages.         *)
(***************************************************************************)
\* from_params(code, heap_pages) is called and its result kept with its
\* arguments.
BuildRuntime(code, heap_pages) ==
    /\ Len(fpBuilt) < MaxBuilds
    /\ fpBuilt' = Append(fpBuilt,
                         [code |-> code, heap_pages |-> heap_pages,
                          rt |-> NewRuntime(code, heap_pages, FALSE)])
    /\ UNCHANGED <<serviceVars, kvVars, fanList, fanSt, fanFlags, rw, rwBufs,
                   rwData, rwOp, rwWake, rwSeen, jsCall, jsRes>>

NextBuild ==
    \E code \in GenesisCodes, heap_pages \in GenesisHeapPages :
        BuildRuntime(code, heap_pages)

SpecBuild == Init /\ [][NextBuild]_vars

\* What the storage values are: the code is there, the heap pages decode,
\* the code compiles, the virtual machine has a Core_version that decodes.
CodeFound(code) == code # 0
HeapPagesValid(heap_pages) == heap_pages # 2
Compiles(code) == CodeFound(code) /\ code # 3
HasCoreVersion(code) == Compiles(code) /\ code # 4

\* C38: from_params returns CodeNotFound when the code is absent, whatever
\* the heap pages; otherwise InvalidHeapPages when the heap pages do not
\* decode; otherwise Build when the code does not compile; otherwise
\* CoreVersion when the version cannot be extracted; otherwise a record
\* with the version of the code, the slot of the virtual machine filled and
\* no metadata.  An error carries no virtual machine.
C38_BuildOutcomePrecedence ==
    \A i \in 1 .. Len(fpBuilt) :
        LET b == fpBuilt[i]
            res == b.rt.res
        IN /\ res \in {"CodeNotFound", "InvalidHeapPages", "Build",
                        "CoreVersion", "ok"}
           /\ ~CodeFound(b.code) => res = "CodeNotFound"
           /\ (CodeFound(b.code) /\ ~HeapPagesValid(b.heap_pages)) =>
                 res = "InvalidHeapPages"
           /\ (HeapPagesValid(b.heap_pages) /\ CodeFound(b.code)
                 /\ ~Compiles(b.code)) => res = "Build"
           /\ (HeapPagesValid(b.heap_pages) /\ Compiles(b.code)
                 /\ ~HasCoreVersion(b.code)) => res = "CoreVersion"
           /\ (HeapPagesValid(b.heap_pages) /\ HasCoreVersion(b.code)) =>
                 /\ res = "ok"
                 /\ b.rt.vm /\ b.rt.meta = 0
                 /\ RuntimeVersionOf(b.rt) = b.code
           /\ res # "ok" => ~b.rt.vm /\ b.rt.meta = 0

\* A build without code and with heap pages that do not decode, and a build
\* that succeeds.
C38_Witness ==
    /\ \E i \in 1 .. Len(fpBuilt) :
          /\ ~CodeFound(fpBuilt[i].code)
          /\ ~HeapPagesValid(fpBuilt[i].heap_pages)
          /\ fpBuilt[i].rt.res = "CodeNotFound"
    /\ \E i \in 1 .. Len(fpBuilt) :
          fpBuilt[i].rt.res = "ok" /\ fpBuilt[i].rt.vm

(***************************************************************************)
(* C39.                                                                    *)
(***************************************************************************)
\* The blocks a subscriber knows from its snapshot, and those it knows when
\* the j-th item pushed on its channel arrives.
Listed(seen) == {seen.blocks[n].block : n \in 1 .. Len(seen.blocks)}

KnownBefore(seen, j) ==
    {seen.fin} \cup Listed(seen)
        \cup {seen.sent[k].block : k \in {x \in 1 .. (j - 1) :
                                            seen.sent[x].type = "Block"}}

\* C39: the snapshot subscribe_all returns lists a parent before its
\* children, the parent of every listed block is the finalized block of the
\* snapshot or a listed block, at most one listed block is flagged as the
\* best block; and the parent of every block pushed on the channel
\* afterwards is in the snapshot or was pushed on the channel earlier.
C39_SnapshotThenConnectedBlocks ==
    \A i \in SubIds :
        LET seen == allSeen[i]
            at == 1 .. Len(seen.blocks)
        IN seen.fin # NoBlock =>
            /\ \A m \in at, n \in at :
                  seen.blocks[n].parent = seen.blocks[m].block => m < n
            /\ \A n \in at :
                  seen.blocks[n].parent \in {seen.fin} \cup Listed(seen)
            /\ Cardinality({n \in at : seen.blocks[n].best}) <= 1
            /\ \A j \in 1 .. Len(seen.sent) :
                  seen.sent[j].type = "Block" =>
                      seen.sent[j].parent \in KnownBefore(seen, j)

\* A subscriber whose snapshot lists a block and its child, one of them the
\* best block, has been sent a block.
C39_Witness ==
    \E i \in SubIds :
        LET seen == allSeen[i]
            at == 1 .. Len(seen.blocks)
        IN /\ \E m \in at, n \in at :
                 seen.blocks[n].parent = seen.blocks[m].block
           /\ \E n \in at : seen.blocks[n].best
           /\ \E j \in 1 .. Len(seen.sent) : seen.sent[j].type = "Block"

(***************************************************************************)
(* C40.                                                                    *)
(***************************************************************************)
\* The bytes read so far and those still to read; the bytes written so far
\* and the room still to write into.
ReadTotal(r) == r.read_bytes + incoming_buffer_available(r)

WriteTotal(r) == r.written_bytes + outgoing_buffer_available(r)

\* C40: every call that returns (advance_read, read_bytes, discard_all_incoming,
\* next() of incoming_bytes_iter, advance_write, write_out,
\* write_from_vec_deque, close_write) leaves read_bytes +
\* incoming_buffer_available() as it was when the read side is open, and
\* leaves written_bytes + outgoing_buffer_available() as it was when the
\* write side is open and stays open.
C40_TotalsStayConstant ==
    [][~rwOp'.panicked =>
          /\ rw.incoming_buffer.some =>
                /\ rw'.incoming_buffer.some
                /\ ReadTotal(rw') = ReadTotal(rw)
          /\ (rw.outgoing_buffer.some /\ rwOp'.name # "close_write") =>
                /\ rw'.outgoing_buffer.some
                /\ WriteTotal(rw') = WriteTotal(rw)]_vars

\* The whole of a buffer of the largest size has been read, the last bytes
\* of it by discard_all_incoming.
C40_Witness ==
    /\ rwOp.name = "discard_all_incoming"
    /\ rw.incoming_buffer.some
    /\ incoming_buffer_available(rw) = 0
    /\ rw.read_bytes = MaxStart + MaxBufLen

====
